---------------------------- MODULE Spec2Model ----------------------------
(***************************************************************************)
(* Model of the congress-explorer synchronisation scripts:                 *)
(*   src/dbSetup.js (lines 335-897)  the bill population script            *)
(*   src/unnamed/part_001            the member population script          *)
(*   src/unnamed/part_000            the committee / report script         *)
(* The three scripts write one PostgreSQL database (schema: src/dbSetup.js *)
(* lines 12-248).  A run of a script is a sequence of steps; the steps of  *)
(* one run are separated where the code awaits (a fetch, a pacing sleep,   *)
(* a transaction boundary).                                                *)
(*                                                                         *)
(* Storage is a record of tables.  `db` is what is committed; `tx` is the  *)
(* working copy of the one open transaction (PostgreSQL READ COMMITTED:    *)
(* nothing of `tx` is visible in `db` before COMMIT, ROLLBACK discards     *)
(* it).  Sequences (SERIAL) are not transactional: `billSeq` survives a    *)
(* rollback.                                                               *)
(*                                                                         *)
(* Columns that no modelled statement reads or that are copied verbatim    *)
(* next to a modelled column of the same statement are left out; each      *)
(* operator says which statement it models.                                *)
(***************************************************************************)
EXTENDS Integers, Sequences, FiniteSets, TLC

(***************************************************************************)
(* SQL NULL / a JavaScript undefined field: the empty tuple; a present     *)
(* value v is <<v>>.                                                       *)
(***************************************************************************)
Null == <<>>
Some(v) == <<v>>

(* ---------------------------- bounds ---------------------------------- *)
\* number of script runs started in one behaviour
MaxRuns == 1
\* number of times the clock is advanced
MaxTicks == 1
\* number of times one batch may be answered 429 before the upstream relents
MaxThrottle == 1
\* pages of the committee listing in one run
MaxListPages == 2
\* runs of one script in succession, in the specification of repeated runs
MaxReruns == 2

(* ------------------------ program constants --------------------------- *)
\* process.env.CURRENT_CONGRESS (src/dbSetup.js:350)
CURRENT_CONGRESS == 119
\* 7 * 24 * 60 * 60 * 1000 ms, in days (src/dbSetup.js:423)
FRESH_DAYS == 7
\* BATCH_SIZE of the bill script (src/dbSetup.js:351 sets 15); scaled to the
\* size of the modelled listing so that a run has more than one batch
BATCH_SIZE == 2
\* BATCH_SIZE of the member script (src/unnamed/part_001:17 sets 50), scaled
MEMBER_BATCH_SIZE == 2
\* the day the behaviour starts on
Day0 == FRESH_DAYS + 3

(* --------------------------- universes -------------------------------- *)
M1 == "A000001"
M2 == "B000002"
M3 == "C000003"

\* (congress, type, number)
K1 == <<119, "HR", 1>>
K2 == <<119, "HR", 2>>
K3 == <<119, "S", 3>>
K4 == <<118, "S", 7>>

\* committee system codes, as character sequences
HSAG == <<"h", "s", "a", "g">>
HSAG00 == <<"h", "s", "a", "g", "0", "0">>
SSAF == <<"s", "s", "a", "f">>
XLIB == <<"x", "l">>

\* report citations
R1 == "H. Rept. 119-1"
R2 == "H. Rept. 118-9"

(* ------------------------- string helpers ----------------------------- *)
\* String.prototype.toLowerCase on one character (or one word of a name) of the
\* modelled alphabet
LowerChar(c) ==
    CASE c = "H" -> "h"
      [] c = "S" -> "s"
      [] c = "J" -> "j"
      [] c = "T" -> "t"
      [] c = "Joint" -> "joint"
      [] OTHER -> c

ToLower(s) == [n \in 1..Len(s) |-> LowerChar(s[n])]

\* String.prototype.startsWith
StartsWith(s, p) == Len(p) <= Len(s) /\ SubSeq(s, 1, Len(p)) = p

\* String.prototype.includes: p occurs as a contiguous run of s
Includes(s, p) ==
    \E n \in 1..(Len(s) + 1) :
        n + Len(p) - 1 <= Len(s) /\ SubSeq(s, n, n + Len(p) - 1) = p

\* `x?.toLowerCase() || ''`
LowerOrEmpty(f) == IF f = Null THEN <<>> ELSE ToLower(f[1])

(***************************************************************************)
(* inferChamber (src/dbSetup.js:366-388).  committee.chamber is Null or    *)
(* <<chamber>>; systemCode is Null or <<code>>, a code being a sequence of *)
(* characters; name is Null or <<name>>, a name being a sequence of        *)
(* lower/upper-case words (a word stands for its characters: `includes`    *)
(* of a phrase is a contiguous run of words).                              *)
(* Line 383 calls inferChamber(committee) again with the same argument     *)
(* before line 387 is reached: the recursion never ends and the call       *)
(* raises RangeError.  "THROW" is that exception.                          *)
(***************************************************************************)
InferNoMatch(committee) == "THROW"

inferChamber(committee) ==
    LET systemCode == LowerOrEmpty(committee.systemCode)
        name == LowerOrEmpty(committee.name)
    IN  IF committee.chamber # Null /\ committee.chamber[1] # "" THEN committee.chamber[1]
        ELSE IF StartsWith(systemCode, <<"s">>) \/ StartsWith(systemCode, <<"s", "s">>)
            THEN "Senate"
        ELSE IF StartsWith(systemCode, <<"h">>) \/ StartsWith(systemCode, <<"h", "s">>)
            THEN "House"
        ELSE IF Includes(systemCode, <<"j", "t">>) \/ Includes(name, <<"joint">>)
            THEN "Joint"
        ELSE IF Includes(name, <<"senate">>) \/ Includes(name, <<"foreign", "relations">>)
            THEN "Senate"
        ELSE IF Includes(name, <<"house">>) \/ Includes(name, <<"representatives">>)
            THEN "House"
        ELSE InferNoMatch(committee)

(* ----------------------------- storage -------------------------------- *)
\* function f with key k set to v
Put(f, k, v) == [x \in (DOMAIN f) \cup {k} |-> IF x = k THEN v ELSE f[x]]

\* the tables with no row
EmptyDb ==
    [ members |-> <<>>,                 \* bioguide_id -> [first_name]
      member_terms |-> <<>>,            \* rows in id order
      committees |-> <<>>,              \* system_code -> [name, chamber, parent, is_current]
      committee_history |-> <<>>,       \* rows in id order
      bills |-> <<>>,                   \* (congress,type,number) -> [id, title, sponsor, wm]
      bill_cosponsors |-> {},           \* <<bill_id, member_bioguide_id>>
      bill_committees |-> {},           \* <<bill_id, committee_system_code, activity_name>>
      related_bills |-> {},             \* <<bill_id, related_bill_id>>
      committee_reports |-> <<>>,       \* citation -> [congress, updated_at, title]
      report_committees |-> {},         \* <<citation, committee_system_code>>
      report_associated_bills |-> {} ]  \* <<citation, bill_id>>

(***************************************************************************)
(* A session on one pooled client: s.db the committed tables, s.tx the     *)
(* open transaction's tables, s.seq the bills id sequence, s.err the       *)
(* exception now propagating in the script ("ok": none), s.aborted: the    *)
(* transaction has had a failed statement (PostgreSQL then refuses every   *)
(* further statement with 25P02 and turns COMMIT into ROLLBACK).           *)
(***************************************************************************)
Session(d, t, q) == [db |-> d, tx |-> t, seq |-> q, err |-> "ok", aborted |-> FALSE]

\* a statement that PostgreSQL rejects: the client throws, the transaction is doomed
Reject(s, e) == [s EXCEPT !.err = e, !.aborted = TRUE]

\* an exception raised by the script itself (a fetch that throws, a TypeError)
Throw(s, e) == [s EXCEPT !.err = e]

\* client.query(stmt): skipped when an exception is already propagating,
\* rejected when the transaction is already aborted
Query(s, result) ==
    IF s.err # "ok" THEN s
    ELSE IF s.aborted THEN Reject(s, "in_failed_sql_transaction")
    ELSE result

\* variant for C20: the client is not given back
ReleaseSkipped(h) == h

\* client.release(): the number of clients checked out after it
Release(h) == h - 1

(***************************************************************************)
(* What a request can be answered: "ok" (a 2xx status), "throttled" (429), *)
(* "status" (any other non-2xx status), "throw" (fetch rejects: a          *)
(* transport error).                                                       *)
(***************************************************************************)
Failures == {"throttled", "status", "throw"}

Answers == {"ok"} \cup Failures

\* the answer to report for a step that awaited several requests: the gravest
Worst(tags) ==
    IF "throttled" \in tags THEN "throttled"
    ELSE IF "throw" \in tags THEN "throw"
    ELSE IF "status" \in tags THEN "status"
    ELSE IF "ok" \in tags THEN "ok"
    ELSE "none"

(* --------------------- statements of the bill script ------------------ *)
\* `x || dflt` on a text field
OrDefault(f, dflt) == IF f = Null THEN Some(dflt) ELSE f

\* variant for C1: the stub is inserted through the pool instead of the
\* transaction's client, so it is committed on its own
InsertStubMemberOnPool(s, member) ==
    Query(s,
        IF member.bioguideId \in DOMAIN s.tx.members THEN s
        ELSE LET row == [first_name |-> OrDefault(member.firstName, "Unknown")]
             IN  [s EXCEPT !.tx.members = Put(@, member.bioguideId, row),
                           !.db.members = Put(@, member.bioguideId, row)])

(***************************************************************************)
(* INSERT INTO members (bioguide_id, first_name, ...) ... ON CONFLICT DO   *)
(* NOTHING (src/dbSetup.js:535-546 and 658-669): the stub of a sponsor or  *)
(* cosponsor that storage lacks.                                           *)
(***************************************************************************)
InsertStubMember(s, member) ==
    Query(s,
        IF member.bioguideId \in DOMAIN s.tx.members THEN s
        ELSE [s EXCEPT !.tx.members =
                Put(@, member.bioguideId,
                    [first_name |-> OrDefault(member.firstName, "Unknown")])])

(***************************************************************************)
(* The loop over the missing sponsor / cosponsor ids (src/dbSetup.js       *)
(* 530-550 and 653-673).  got[id] is what `fetch` of /member/<id> gives:   *)
(* <<"ok", member>> (res.ok and a member object), <<"nomember">> (res.ok,  *)
(* no member object), <<"throttled">> (429) and <<"status">> (another      *)
(* non-ok status), which the code does not tell apart, or <<"throw">>      *)
(* (fetch rejects: the exception leaves the loop).                         *)
(***************************************************************************)
RECURSIVE FetchMissingMembers(_, _, _)
FetchMissingMembers(s, ids, got) ==
    IF ids = <<>> \/ s.err # "ok" THEN s
    ELSE LET r == got[Head(ids)]
             s1 == CASE r[1] = "throw" -> Throw(s, "fetch")
                      [] r[1] = "ok" -> InsertStubMember(s, r[2])
                      [] OTHER -> s
         IN  FetchMissingMembers(s1, Tail(ids), got)

\* [...new Set(xs)]: the distinct elements in order of first occurrence
RECURSIVE Distinct(_)
Distinct(xs) ==
    IF xs = <<>> THEN <<>>
    ELSE LET rest == Distinct(SubSeq(xs, 1, Len(xs) - 1))
             x == xs[Len(xs)]
         IN  IF \E n \in 1..Len(rest) : rest[n] = x THEN rest ELSE Append(rest, x)

\* xs.map(f).filter(id => id) for a Maybe-valued field: the present values
RECURSIVE Present(_)
Present(xs) ==
    IF xs = <<>> THEN <<>>
    ELSE IF Head(xs) = Null THEN Present(Tail(xs))
    ELSE <<Head(xs)[1]>> \o Present(Tail(xs))

\* SELECT bioguide_id FROM members WHERE bioguide_id = ANY(ids), then
\* ids.filter(id => !existing.has(id))  (src/dbSetup.js:524-526, 647-649)
MissingMembers(s, ids) == SelectSeq(ids, LAMBDA m : m \notin DOMAIN s.tx.members)

(***************************************************************************)
(* src/dbSetup.js:521-552: the sponsors of the batch that storage lacks    *)
(* are fetched and inserted as stubs before any bill is written.  A batch  *)
(* element that is undefined (a detail body without `bill`, line 867)      *)
(* makes `b.sponsors` at line 522 a TypeError.                             *)
(***************************************************************************)
SponsorIds(billDataBatch) ==
    Distinct(Present([n \in 1..Len(billDataBatch) |-> billDataBatch[n].sponsor]))

\* what `const { bill } = await response.json()` gives for a body without `bill`
UndefinedBill ==
    [kind |-> "undefined", key |-> Null, title |-> Null, sponsor |-> Null,
     committees |-> <<>>, cosponsors |-> <<>>, related |-> <<>>]

ResolveSponsors(s, billDataBatch, got) ==
    IF \E n \in 1..Len(billDataBatch) : billDataBatch[n].kind = "undefined"
    THEN Throw(s, "TypeError")
    ELSE LET sponsorIds == SponsorIds(billDataBatch)
         IN  IF sponsorIds = <<>> THEN s
             ELSE Query(s, FetchMissingMembers(s, MissingMembers(s, sponsorIds), got))

\* variant for C7: the DO UPDATE clause leaves last_processed_at out
UpsertBillKeepingWatermark(s, bill, t, dbError) ==
    Query(s,
        IF dbError THEN Reject(s, "db_error")
        ELSE IF bill.sponsor # Null /\ bill.sponsor[1] \notin DOMAIN s.tx.members
        THEN Reject(s, "fk_bills_sponsor")
        ELSE IF bill.key \in DOMAIN s.tx.bills
        THEN [s EXCEPT !.tx.bills[bill.key] =
                [@ EXCEPT !.title = OrDefault(bill.title, "Untitled Bill"),
                          !.sponsor = bill.sponsor]]
        ELSE [s EXCEPT !.seq = @ + 1,
                       !.tx.bills = Put(@, bill.key,
                            [id |-> s.seq + 1,
                             title |-> OrDefault(bill.title, "Untitled Bill"),
                             sponsor |-> bill.sponsor,
                             wm |-> Some(t)])])

(***************************************************************************)
(* INSERT INTO bills (...) VALUES (..., NOW()) ON CONFLICT (congress,      *)
(* type, number) DO UPDATE SET ..., last_processed_at = NOW() RETURNING id *)
(* (src/dbSetup.js:556-580).  sponsor_bioguide_id REFERENCES members.      *)
(* t is NOW(): the time the transaction began.  dbError: the server        *)
(* rejects the statement for a reason outside the model (a lost            *)
(* connection, a value a column cannot hold).                              *)
(***************************************************************************)
UpsertBill(s, bill, t, dbError) ==
    Query(s,
        IF dbError THEN Reject(s, "db_error")
        ELSE IF bill.sponsor # Null /\ bill.sponsor[1] \notin DOMAIN s.tx.members
        THEN Reject(s, "fk_bills_sponsor")
        ELSE IF bill.key \in DOMAIN s.tx.bills
        THEN [s EXCEPT !.tx.bills[bill.key] =
                [@ EXCEPT !.title = OrDefault(bill.title, "Untitled Bill"),
                          !.sponsor = bill.sponsor,
                          !.wm = Some(t)]]
        ELSE [s EXCEPT !.seq = @ + 1,
                       !.tx.bills = Put(@, bill.key,
                            [id |-> s.seq + 1,
                             title |-> OrDefault(bill.title, "Untitled Bill"),
                             sponsor |-> bill.sponsor,
                             wm |-> Some(t)])])

\* variant for C5: DO UPDATE SET chamber = EXCLUDED.chamber
ChamberOverwrite(stored, excluded) == excluded

(***************************************************************************)
(* ensureCommitteeExists (src/dbSetup.js:487-505).  The values array is    *)
(* built inside the try: an inferChamber that throws is caught and no      *)
(* statement is sent.  A statement the server rejects is caught too: the   *)
(* script goes on, the transaction stays aborted.                          *)
(***************************************************************************)
ChamberMerge(stored, excluded) == IF stored = "Unknown" THEN excluded ELSE stored

ensureCommitteeExists(s, committee, dbError) ==
    IF s.err # "ok" \/ committee.systemCode = Null THEN s
    ELSE LET chamber == inferChamber(committee)
             code == committee.systemCode[1]
             name == OrDefault(committee.name, <<"unknown", "committee">>)
         IN  IF chamber = "THROW" THEN s
             ELSE IF s.aborted \/ dbError THEN [s EXCEPT !.aborted = TRUE]
             ELSE IF code \in DOMAIN s.tx.committees
             THEN [s EXCEPT !.tx.committees[code] =
                     [@ EXCEPT !.name = name[1],
                               !.chamber = ChamberMerge(@, chamber)]]
             ELSE [s EXCEPT !.tx.committees =
                     Put(@, code, [name |-> name[1], chamber |-> chamber,
                                   parent |-> Null, is_current |-> Null])]

(***************************************************************************)
(* fetchPaginatedSubEndpoint (src/dbSetup.js:455-482): the items of the    *)
(* pages read before the listing ended or a page failed with a status      *)
(* other than 429; it never throws.  One item per page: every prefix of    *)
(* the upstream list is a possible result.                                 *)
(***************************************************************************)
fetchPaginatedSubEndpoint(items) == {SubSeq(items, 1, n) : n \in 0..Len(items)}

(***************************************************************************)
(* src/dbSetup.js:623-641: per committee of the bill, ensureCommitteeExists*)
(* then one INSERT INTO bill_committees per activity (ON CONFLICT DO       *)
(* NOTHING; committee_system_code NOT NULL REFERENCES committees).         *)
(***************************************************************************)
InsertBillCommittee(s, billId, committee, activity) ==
    Query(s,
        IF committee.systemCode = Null THEN Reject(s, "not_null_bill_committees")
        ELSE IF committee.systemCode[1] \notin DOMAIN s.tx.committees
        THEN Reject(s, "fk_bill_committees")
        ELSE [s EXCEPT !.tx.bill_committees =
                @ \cup {<<billId, committee.systemCode[1], activity>>}])

RECURSIVE InsertActivities(_, _, _, _)
InsertActivities(s, billId, committee, activities) ==
    IF activities = <<>> THEN s
    ELSE InsertActivities(InsertBillCommittee(s, billId, committee, Head(activities)),
                          billId, committee, Tail(activities))

RECURSIVE SaveBillCommittees(_, _, _, _)
SaveBillCommittees(s, billId, committees, dbError) ==
    IF committees = <<>> \/ s.err # "ok" THEN s
    ELSE LET c == Head(committees)
             s1 == ensureCommitteeExists(s, c, dbError)
         IN  SaveBillCommittees(InsertActivities(s1, billId, c, c.activities),
                                billId, Tail(committees), dbError)

(***************************************************************************)
(* src/dbSetup.js:643-686: the cosponsors that storage lacks are fetched   *)
(* and inserted as stubs, then one INSERT INTO bill_cosponsors per         *)
(* cosponsor (ON CONFLICT DO NOTHING; member_bioguide_id REFERENCES        *)
(* members).                                                               *)
(***************************************************************************)
InsertCosponsor(s, billId, memberId) ==
    Query(s,
        IF memberId \notin DOMAIN s.tx.members THEN Reject(s, "fk_bill_cosponsors")
        ELSE [s EXCEPT !.tx.bill_cosponsors = @ \cup {<<billId, memberId>>}])

RECURSIVE InsertCosponsors(_, _, _)
InsertCosponsors(s, billId, ids) ==
    IF ids = <<>> THEN s
    ELSE InsertCosponsors(InsertCosponsor(s, billId, Head(ids)), billId, Tail(ids))

SaveCosponsors(s, billId, cosponsorIds, got) ==
    IF cosponsorIds = <<>> \/ s.err # "ok" THEN s
    ELSE LET s1 == Query(s, FetchMissingMembers(s, MissingMembers(s, cosponsorIds), got))
         IN  InsertCosponsors(s1, billId, cosponsorIds)

\* variant for C12: the stub statement stamps last_processed_at as well (with
\* the day the behaviour starts on)
UpsertRelatedBillStubMarking(s, relatedBill) ==
    Query(s,
        IF relatedBill.key \in DOMAIN s.tx.bills
        THEN [s EXCEPT !.tx.bills[relatedBill.key] =
                [@ EXCEPT !.title = OrDefault(relatedBill.title, "Untitled Bill"),
                          !.wm = Some(Day0)]]
        ELSE [s EXCEPT !.seq = @ + 1,
                       !.tx.bills = Put(@, relatedBill.key,
                            [id |-> s.seq + 1,
                             title |-> OrDefault(relatedBill.title, "Untitled Bill"),
                             sponsor |-> Null,
                             wm |-> Some(Day0)])])

(***************************************************************************)
(* src/dbSetup.js:733-761: per related bill, INSERT INTO bills (congress,  *)
(* type, number, title) ... ON CONFLICT (congress, type, number) DO UPDATE *)
(* SET title = EXCLUDED.title RETURNING id, then the link rows.            *)
(***************************************************************************)
UpsertRelatedBillStub(s, relatedBill) ==
    Query(s,
        IF relatedBill.key \in DOMAIN s.tx.bills
        THEN [s EXCEPT !.tx.bills[relatedBill.key].title =
                OrDefault(relatedBill.title, "Untitled Bill")]
        ELSE [s EXCEPT !.seq = @ + 1,
                       !.tx.bills = Put(@, relatedBill.key,
                            [id |-> s.seq + 1,
                             title |-> OrDefault(relatedBill.title, "Untitled Bill"),
                             sponsor |-> Null,
                             wm |-> Null])])

InsertRelatedLink(s, billId, relatedBill) ==
    IF ~relatedBill.linked THEN s
    ELSE Query(s, [s EXCEPT !.tx.related_bills =
                     @ \cup {<<billId, s.tx.bills[relatedBill.key].id>>}])

RECURSIVE SaveRelatedBills(_, _, _)
SaveRelatedBills(s, billId, relatedBills) ==
    IF relatedBills = <<>> \/ s.err # "ok" THEN s
    ELSE LET s1 == UpsertRelatedBillStub(s, Head(relatedBills))
         IN  SaveRelatedBills(InsertRelatedLink(s1, billId, Head(relatedBills)),
                              billId, Tail(relatedBills))

(***************************************************************************)
(* One turn of the loop `for (const bill of billDataBatch)`                *)
(* (src/dbSetup.js:554-826) for the sub-resources modelled: the bill row,  *)
(* its committees, its cosponsors, its related bills.  (Actions, reports,  *)
(* summaries, subjects, titles, text versions and cost estimates are       *)
(* written by statements of the same shape as bill_committees: INSERT ...  *)
(* ON CONFLICT DO NOTHING keyed on the bill id.)                           *)
(* io: what the environment answers during this turn: io.dbError,          *)
(* io.committees / io.cosponsors / io.related (the fetched sub-resource    *)
(* lists), io.got (the member fetches), io.committeeDbError.               *)
(***************************************************************************)
SaveBillTurn(s, bill, t, io) ==
    LET s1 == UpsertBill(s, bill, t, io.dbError)
    IN  IF s1.err # "ok" THEN s1
        ELSE LET billId == s1.tx.bills[bill.key].id
                 s2 == SaveBillCommittees(s1, billId, io.committees, io.committeeDbError)
                 s3 == SaveCosponsors(s2, billId, io.cosponsors, io.got)
             IN  SaveRelatedBills(s3, billId, io.related)

(* ------------------------------ upstream ------------------------------ *)
\* the member object /member/<id> answers with (firstName may be absent)
MemberDetail(m) ==
    [bioguideId |-> m,
     firstName |-> IF m = M2 THEN Null ELSE Some("Ann"),
     terms |-> IF m = M3 THEN <<>>
               ELSE <<[congress |-> CURRENT_CONGRESS,
                       chamber |-> IF m = M1 THEN "Senate" ELSE "House",
                       district |-> IF m = M1 THEN Null ELSE Some(4),
                       end_year |-> Null]>>]

\* what one fetch of /member/<id> inside the bill transaction can give
MemberFetches(m) ==
    {<<"ok", MemberDetail(m)>>, <<"nomember">>, <<"throttled">>, <<"status">>, <<"throw">>}

\* what the member requests of a step were answered
MemberAnswersTag(got) ==
    Worst({IF got[m][1] = "nomember" THEN "ok" ELSE got[m][1] : m \in DOMAIN got})

\* the answers to the fetches of the members `ids`
MemberAnswers(ids) ==
    {g \in [ids -> UNION {MemberFetches(m) : m \in ids}] :
        \A m \in ids : g[m] \in MemberFetches(m)}

\* the elements of a sequence
Range(xs) == {xs[n] : n \in 1..Len(xs)}

\* committee objects as they come inside a bill's committees listing
CommAgriculture ==
    [systemCode |-> Some(HSAG), name |-> Some(<<"agriculture">>),
     chamber |-> Some("House"), activities |-> <<"Referred to">>]
CommLibrary ==
    [systemCode |-> Some(XLIB), name |-> Some(<<"library">>),
     chamber |-> Null, activities |-> <<"Referred to">>]
CommUnknown ==
    [systemCode |-> Some(HSAG), name |-> Null,
     chamber |-> Some("Unknown"), activities |-> <<>>]
CommJoint ==
    [systemCode |-> Some(XLIB), name |-> Some(<<"Joint", "library">>),
     chamber |-> Null, activities |-> <<"Markup by">>]

\* the bill object the detail endpoint of bill k answers with
BillDetail(k) ==
    CASE k = K1 ->
           [kind |-> "bill", key |-> k, title |-> Some("An Act"), sponsor |-> Some(M1),
            committees |-> <<CommAgriculture>>, cosponsors |-> <<M2>>, related |-> <<>>]
      [] k = K2 ->
           [kind |-> "bill", key |-> k, title |-> Some("An Act"), sponsor |-> Some(M2),
            committees |-> <<CommLibrary>>, cosponsors |-> <<>>,
            related |-> <<[key |-> K4, title |-> Null, linked |-> TRUE]>>]
      [] OTHER ->
           [kind |-> "bill", key |-> k, title |-> Null, sponsor |-> Null,
            committees |-> <<CommUnknown, CommJoint>>, cosponsors |-> <<>>,
            related |-> <<[key |-> K1, title |-> Some("Related"), linked |-> TRUE]>>]

\* the pages of the bill listing /bill/<congress>, in pagination.next order
BillPages == << <<K1, K2>>, <<K3>> >>

\* the pages of the member listing /member/congress/<congress>
MemberPages == << <<M1, M2>>, <<M3>> >>

\* the values a promise of the fan-out resolves to besides a bill object
\* (src/dbSetup.js:859-873): 'RATE_LIMIT', null, undefined
Marker(kind) == [UndefinedBill EXCEPT !.kind = kind]

(* ------------------------------- state -------------------------------- *)
VARIABLES
    db,         \* the committed tables
    tx,         \* the tables as the open transaction sees them
    txState,    \* "none" | "open" | "aborted"
    billSeq,    \* last value of bills_id_seq
    now,        \* the clock, in days
    ticks,      \* clock advances so far
    runs,       \* script runs started so far
    family,     \* the script running: "bill" | "member" | "committee" | "none"
    pc,         \* where the running script is
    held,       \* pooled clients checked out and not released
    workList,   \* billUrls / allMemberUrls / committeesData
    page,       \* the listing page nextUrl points at
    i,          \* the batch cursor of main's for loop
    results,    \* what Promise.all gave for the current batch
    batch,      \* the batch handed to the batch writer
    j,          \* index of the next batch element to write
    outcome,    \* how the last batch write ended
    txTime,     \* NOW() of the open transaction
    throttles,  \* times the current run was answered 429
    error,      \* the exception the catch block last received ("ok": none)
    detailUrls, \* committee script: what upsertBaseCommittees returned
    allReportUrls, \* committee script: the report listings queued
    dbAtBegin,  \* history: the committed tables when the last transaction began
    listed,     \* history: the bills of the listing pages received in this run
    dbAfterFirst, \* history: the committed tables when the second run started
    hist        \* history: what the last step asked of the upstream, and the
                \* record of the run so far (see HistInit)

vars == <<db, tx, txState, billSeq, now, ticks, runs, family, pc, held, workList,
          page, i, results, batch, j, outcome, txTime, throttles, error, detailUrls,
          allReportUrls, dbAtBegin, listed, dbAfterFirst, hist>>

\* the variables of the committee script's main
cvars == <<detailUrls, allReportUrls>>

(***************************************************************************)
(* The history record.  fetch: what the upstream answered to the requests  *)
(* the last step awaited ("none": the step awaited no request).            *)
(* configured: CURRENT_CONGRESS is set in the environment of the run.      *)
(* committedAt: per bill, NOW() of the last committed transaction that     *)
(* wrote it as a top-level record.  killedAt: whether a transaction was    *)
(* open when a run was last killed ("": none was).  attempted / rolled:    *)
(* the cursors                                                             *)
(* of the batches of this run that reached the writer / were rolled back.  *)
(* partial: the bills last written with a sub-resource listing that ended  *)
(* early.  lastCommit: the tables the last COMMIT left.                    *)
(***************************************************************************)
Watermarks(d) ==
    [k \in {x \in DOMAIN d.bills : d.bills[x].wm # Null} |-> d.bills[k].wm[1]]

HistInit(d) ==
    [fetch |-> "none", configured |-> TRUE, committedAt |-> Watermarks(d),
     killedAt |-> "", attempted |-> {}, rolled |-> {}, partial |-> {},
     lastCommit |-> d]

\* a step that awaits no request
Quiet(h) == [h EXCEPT !.fetch = "none"]

\* a step that awaited a request answered `answer`
Asked(h, answer) == [h EXCEPT !.fetch = answer]

\* a step that committed and left the tables d
Committed(h, d) == [h EXCEPT !.fetch = "none", !.lastCommit = d]

\* the first step of a run
NewRun(h, configured) ==
    [h EXCEPT !.fetch = "none", !.configured = configured,
              !.attempted = {}, !.rolled = {}]

\* stores a run can start from
InitDbs ==
    { [db |-> EmptyDb, seq |-> 0],
      [db |-> [EmptyDb EXCEPT
                 !.members = Put(<<>>, M1, [first_name |-> Some("Ann")]),
                 !.committees =
                    Put(Put(Put(<<>>,
                        HSAG, [name |-> <<"agriculture">>, chamber |-> "House",
                               parent |-> Null, is_current |-> Null]),
                        XLIB, [name |-> <<"library">>, chamber |-> "Unknown",
                               parent |-> Null, is_current |-> Null]),
                        HSAG00, [name |-> <<"forestry">>, chamber |-> "House",
                                 parent |-> Some(HSAG), is_current |-> Null]),
                 !.committee_reports =
                    Put(<<>>, R1, [congress |-> CURRENT_CONGRESS, title |-> Null]),
                 !.report_committees = {<<R1, HSAG00>>},
                 !.bills =
                    Put(Put(Put(<<>>,
                        K1, [id |-> 1, title |-> Some("Old"), sponsor |-> Some(M1),
                             wm |-> Some(Day0 - FRESH_DAYS)]),
                        K2, [id |-> 2, title |-> Some("Old"), sponsor |-> Null,
                             wm |-> Some(Day0 - FRESH_DAYS + 1)]),
                        K3, [id |-> 3, title |-> Some("Untitled Bill"), sponsor |-> Null,
                             wm |-> Null])],
       seq |-> 3] }

Init ==
    /\ \E d \in InitDbs : db = d.db /\ billSeq = d.seq /\ dbAtBegin = d.db
                          /\ hist = HistInit(d.db)
    /\ tx = EmptyDb
    /\ txState = "none"
    /\ now = Day0
    /\ ticks = 0
    /\ runs = 0
    /\ family = "none"
    /\ pc = "idle"
    /\ held = 0
    /\ workList = <<>>
    /\ page = 0
    /\ i = 0
    /\ results = <<>>
    /\ batch = <<>>
    /\ j = 0
    /\ outcome = "none"
    /\ txTime = 0
    /\ throttles = 0
    /\ error = "ok"
    /\ detailUrls = <<>>
    /\ allReportUrls = <<>>
    /\ listed = <<>>
    /\ dbAfterFirst = EmptyDb

\* the session the running script holds
Cur == [db |-> db, tx |-> tx, seq |-> billSeq, err |-> "ok",
        aborted |-> (txState = "aborted")]

\* the state after the statements of one step: tables, sequence, and the
\* catch block `handler` as next position when an exception left the try
AfterStatements(s, next, handler) ==
    /\ db' = s.db
    /\ tx' = s.tx
    /\ billSeq' = s.seq
    /\ txState' = IF s.aborted THEN "aborted" ELSE "open"
    /\ pc' = IF s.err # "ok" THEN handler ELSE next
    /\ error' = s.err

\* the clock moves between runs (a run is short against a day)
Tick ==
    /\ pc \in {"idle", "done"}
    /\ hist' = Quiet(hist)
    /\ ticks < MaxTicks
    /\ \E d \in {1, FRESH_DAYS} : now' = now + d
    /\ ticks' = ticks + 1
    /\ UNCHANGED <<db, tx, txState, billSeq, runs, family, pc, held, workList, page, i,
                   results, batch, j, outcome, txTime, throttles, dbAtBegin, error, cvars, listed, dbAfterFirst>>

(* --------------------------- the bill script -------------------------- *)
\* variant for C2: the comparison with sevenDaysAgo is >= instead of >
RecentlyProcessedInclusive(lastProcessed, t) ==
    lastProcessed # Null /\ lastProcessed[1] >= t - FRESH_DAYS

\* variant for C4: the cursor is not moved back before `continue`
CursorSkippingAhead(c) == c + BATCH_SIZE

(***************************************************************************)
(* src/dbSetup.js:421-436: dbBillMap.get(key) is undefined (no row) or the *)
(* row's last_processed_at; the bill is skipped when that is truthy and    *)
(* later than sevenDaysAgo.                                                *)
(***************************************************************************)
LastProcessed(d, k) == IF k \in DOMAIN d.bills THEN d.bills[k].wm ELSE Null

RecentlyProcessed(lastProcessed, t) ==
    lastProcessed # Null /\ lastProcessed[1] > t - FRESH_DAYS

FilterPage(d, apiBills, t) ==
    SelectSeq(apiBills, LAMBDA k : ~RecentlyProcessed(LastProcessed(d, k), t))

\* src/dbSetup.js:876-881: `i -= BATCH_SIZE; continue` and then the loop's
\* own `i += BATCH_SIZE`
CursorAfterRateLimit(c) == (c - BATCH_SIZE) + BATCH_SIZE

\* variant for C26: the fan-out takes every URL from the cursor on
SliceToEnd(xs, from, size) == SubSeq(xs, from + 1, Len(xs))

\* batchUrls = billUrls.slice(i, i + BATCH_SIZE)
Slice(xs, from, size) ==
    SubSeq(xs, from + 1, IF from + size < Len(xs) THEN from + size ELSE Len(xs))

\* variant for C16: a walker whose page request fails returns nothing
GatheredOrNothing(sofar, answer, items) ==
    IF answer = "ok" THEN sofar \o items ELSE <<>>

\* the list a walker holds after one turn of `while (nextUrl)`: the items of
\* the page are pushed when the request succeeds; when it fails the catch
\* block ends the loop and the list stays as it is (src/dbSetup.js:404-443,
\* src/unnamed/part_001:41-62, src/unnamed/part_000:45-60)
Gathered(sofar, answer, items) ==
    IF answer = "ok" THEN sofar \o items ELSE sofar

\* variant for C18: the walker does not test the configuration
FirstPositionUnchecked(configured, walking) == walking

\* `if (!CONGRESS_TO_FETCH) return []` at the head of each list walker
\* (src/dbSetup.js:394-397, src/unnamed/part_001:30-33, part_000:36-39) and
\* main's test of the empty list: where the run is after its first step
FirstPosition(configured, walking) == IF configured THEN walking ELSE "done"

\* main (src/dbSetup.js:842-850) entering fetchAndFilterBillUrls (393-401)
BeginBillRun ==
    /\ runs' = runs + 1
    /\ family' = "bill"
    /\ \E configured \in BOOLEAN :
          /\ pc' = FirstPosition(configured, "plan")
          /\ held' = IF pc' = "plan" THEN 1 ELSE 0
          /\ page' = IF pc' = "plan" THEN 1 ELSE 0
          /\ hist' = NewRun(hist, configured)
    /\ workList' = <<>>
    /\ i' = 0
    /\ results' = <<>>
    /\ batch' = <<>>
    /\ j' = 0
    /\ outcome' = "none"
    /\ throttles' = 0
    /\ UNCHANGED <<db, tx, txState, billSeq, now, ticks, txTime, dbAtBegin>>
    /\ detailUrls' = <<>>
    /\ allReportUrls' = <<>>
    /\ error' = "ok"
    /\ listed' = <<>>
    /\ dbAfterFirst' = IF runs = 1 THEN db ELSE dbAfterFirst

\* the bill script is started
StartBillRun ==
    /\ pc \in {"idle", "done"}
    /\ runs < MaxRuns
    /\ BeginBillRun

\* the bill script is started again after it ended or was killed
BillRunAgain ==
    /\ pc = "done" /\ family = "bill"
    /\ runs < MaxReruns
    /\ BeginBillRun

\* one turn of `while (nextUrl)` in fetchAndFilterBillUrls (src/dbSetup.js
\* 404-446), and on leaving the loop main's test at line 846
BillPlanPage ==
    /\ pc = "plan" /\ family = "bill"
    /\ \E answer \in Answers :
          LET ok == answer = "ok"
              found == Gathered(workList, answer, FilterPage(db, BillPages[page], now))
              more == ok /\ page < Len(BillPages)
          IN  /\ hist' = Asked(hist, answer)
              /\ workList' = found
              /\ listed' = IF ok THEN listed \o BillPages[page] ELSE listed
              /\ IF more
                 THEN page' = page + 1 /\ pc' = "plan" /\ held' = held
                 ELSE /\ page' = 0
                      /\ held' = Release(held)
                      /\ pc' = IF found = <<>> THEN "done" ELSE "fetch"
    /\ UNCHANGED <<db, tx, txState, billSeq, now, ticks, runs, family, i, results,
                   batch, j, outcome, txTime, throttles, dbAtBegin, error, cvars, dbAfterFirst>>

\* what the promise for one detail URL resolves to (src/dbSetup.js:859-873)
BillFetchResults(k) ==
    {BillDetail(k), Marker("RATE_LIMIT"), Marker("null"), Marker("undefined")}

HasRateLimit(rs) == \E n \in 1..Len(rs) : rs[n].kind = "RATE_LIMIT"

\* what the requests of a fan-out were answered, from what its promises
\* resolved to: 'RATE_LIMIT' for a 429, null for another status or a
\* transport error
FanOutAnswer(rs) ==
    Worst({IF rs[n].kind = "RATE_LIMIT" THEN "throttled"
           ELSE IF rs[n].kind = "null" THEN "status"
           ELSE "ok" : n \in 1..Len(rs)})

\* src/dbSetup.js:855-881: the fan-out over batchUrls and Promise.all
BillFetchBatch ==
    /\ pc = "fetch" /\ family = "bill"
    /\ LET batchUrls == Slice(workList, i, BATCH_SIZE)
       IN  \E rs \in [1..Len(batchUrls) -> UNION {BillFetchResults(batchUrls[n]) :
                                                   n \in 1..Len(batchUrls)}] :
              /\ \A n \in 1..Len(batchUrls) : rs[n] \in BillFetchResults(batchUrls[n])
              /\ HasRateLimit(rs) => throttles < MaxThrottle
              /\ results' = rs
              /\ hist' = Asked(hist, FanOutAnswer(rs))
              /\ pc' = IF HasRateLimit(rs) THEN "cooldown" ELSE "save"
    /\ UNCHANGED <<db, tx, txState, billSeq, now, ticks, runs, family, held, workList,
                   page, i, batch, j, outcome, txTime, throttles, dbAtBegin, error, cvars, listed, dbAfterFirst>>

\* src/dbSetup.js:876-881: sleep(3601000), then the same batch again
BillCooldown ==
    /\ pc = "cooldown" /\ family = "bill"
    /\ hist' = Quiet(hist)
    /\ i' = CursorAfterRateLimit(i)
    /\ throttles' = throttles + 1
    /\ results' = <<>>
    /\ pc' = "fetch"
    /\ UNCHANGED <<db, tx, txState, billSeq, now, ticks, runs, family, held, workList,
                   page, batch, j, outcome, txTime, dbAtBegin, error, cvars, listed, dbAfterFirst>>

\* results.filter(bill => bill !== null)  (src/dbSetup.js:884)
ValidBillData(rs) == SelectSeq(rs, LAMBDA b : b.kind # "null")

\* saveBillBatchToDb up to BEGIN (src/dbSetup.js:510-519)
BillSaveBegin ==
    /\ pc = "save" /\ family = "bill"
    /\ hist' = [Quiet(hist) EXCEPT !.attempted = @ \cup {i}]
    /\ LET validBillData == ValidBillData(results)
       IN  IF validBillData = <<>>
           THEN /\ outcome' = "empty"
                /\ pc' = "advance"
                /\ UNCHANGED <<tx, txState, held, batch, txTime, dbAtBegin>>
           ELSE /\ held' = held + 1
                /\ tx' = db
                /\ txState' = "open"
                /\ txTime' = now
                /\ dbAtBegin' = db
                /\ batch' = validBillData
                /\ outcome' = "none"
                /\ pc' = "tx_sponsors"
    /\ j' = 0
    /\ UNCHANGED <<db, billSeq, now, ticks, runs, family, workList, page, i, results,
                   throttles, error, cvars, listed, dbAfterFirst>>

\* src/dbSetup.js:521-552
BillResolveSponsors ==
    /\ pc = "tx_sponsors" /\ family = "bill"
    /\ \E got \in MemberAnswers(Range(MissingMembers(Cur, SponsorIds(batch)))) :
          LET s == ResolveSponsors(Cur, batch, got)
          IN  /\ AfterStatements(s, "tx_bills", "catch")
              /\ hist' = Asked(hist, IF s.err = "TypeError" THEN "none"
                                     ELSE MemberAnswersTag(got))
    /\ j' = 1
    /\ UNCHANGED <<now, ticks, runs, family, held, workList, page, i, results, batch,
                   outcome, txTime, throttles, dbAtBegin, cvars, listed, dbAfterFirst>>

\* what the environment can answer during one turn of the bill loop
BillTurnIo(s, bill) ==
    { [dbError |-> e, committeeDbError |-> ce, committees |-> cs, cosponsors |-> co,
       related |-> re, got |-> g] :
        e \in BOOLEAN, ce \in BOOLEAN,
        cs \in fetchPaginatedSubEndpoint(bill.committees),
        co \in fetchPaginatedSubEndpoint(bill.cosponsors),
        re \in fetchPaginatedSubEndpoint(bill.related),
        g \in MemberAnswers(Range(MissingMembers(s, bill.cosponsors))) }

\* the sub-resource listings are fetched: the bill upsert went through
ListingsFetched(s, bill, t, io) == UpsertBill(s, bill, t, io.dbError).err = "ok"

\* a sub-resource listing of the turn ended before its last page
EndedEarly(bill, io) ==
    \/ io.committees # bill.committees
    \/ io.cosponsors # bill.cosponsors
    \/ io.related # bill.related

\* what the requests of the turn were answered: a listing that ended early
\* met a status other than 429 or a transport error (a 429 is retried inside
\* fetchPaginatedSubEndpoint)
BillTurnAnswer(bill, io) ==
    Worst({IF EndedEarly(bill, io) THEN "status" ELSE "ok", MemberAnswersTag(io.got)})

\* one turn of `for (const bill of billDataBatch)` (src/dbSetup.js:554-826)
BillSaveTurn ==
    /\ pc = "tx_bills" /\ family = "bill"
    /\ j <= Len(batch)
    /\ \E io \in BillTurnIo(Cur, batch[j]) :
          /\ AfterStatements(SaveBillTurn(Cur, batch[j], txTime, io), "tx_bills", "catch")
          /\ hist' = IF ListingsFetched(Cur, batch[j], txTime, io)
                     THEN [Asked(hist, BillTurnAnswer(batch[j], io)) EXCEPT
                             !.partial = IF EndedEarly(batch[j], io)
                                         THEN @ \cup {batch[j].key}
                                         ELSE @ \ {batch[j].key}]
                     ELSE Quiet(hist)
    /\ j' = j + 1
    /\ UNCHANGED <<now, ticks, runs, family, held, workList, page, i, results, batch,
                   outcome, txTime, throttles, dbAtBegin, cvars, listed, dbAfterFirst>>

\* the keys of the bill objects of a batch
BatchKeys(b) == {b[n].key : n \in {m \in 1..Len(b) : b[m].kind = "bill"}}

\* the commit times `stamps` with those of the bills `keys` set to t
Stamped(stamps, keys, t) ==
    [k \in (DOMAIN stamps) \cup keys |-> IF k \in keys THEN t ELSE stamps[k]]

(***************************************************************************)
(* COMMIT and the finally block (src/dbSetup.js:828-829, 834-836).  On an  *)
(* aborted transaction COMMIT is answered ROLLBACK without an error: the   *)
(* script logs success and nothing is stored.  A COMMIT the server         *)
(* rejects throws into the catch block.                                    *)
(***************************************************************************)
Commit(s, dbError) ==
    IF dbError THEN Reject(s, "db_error")
    ELSE IF s.aborted THEN s
    ELSE [s EXCEPT !.db = s.tx]

BillCommit ==
    /\ pc = "tx_bills" /\ family = "bill"
    /\ j > Len(batch)
    /\ \E dbError \in BOOLEAN :
          LET s == Commit(Cur, dbError)
          IN  /\ db' = s.db
              /\ hist' = IF s.err = "ok" /\ ~s.aborted
                         THEN [Committed(hist, s.db) EXCEPT
                                 !.committedAt = Stamped(@, BatchKeys(batch), txTime)]
                         ELSE IF s.err = "ok"
                         THEN [Quiet(hist) EXCEPT !.partial = @ \ BatchKeys(batch)]
                         ELSE Quiet(hist)
              /\ error' = s.err
              /\ IF s.err # "ok"
                 THEN /\ pc' = "catch" /\ txState' = "aborted" /\ tx' = tx
                      /\ held' = held /\ outcome' = outcome
                 ELSE /\ pc' = "advance" /\ txState' = "none" /\ tx' = EmptyDb
                      /\ held' = Release(held)
                      /\ outcome' = IF s.aborted THEN "commit_refused" ELSE "committed"
    /\ UNCHANGED <<billSeq, now, ticks, runs, family, workList, page, i, results, batch,
                   j, txTime, throttles, dbAtBegin, cvars, listed, dbAfterFirst>>

\* ROLLBACK in the catch block: the transaction's tables are discarded
Rollback(s) == [s EXCEPT !.tx = EmptyDb]

\* variant for C11: the catch block rethrows, which ends main's loop
BillRollbackEndingRun ==
    /\ pc = "catch" /\ family = "bill"
    /\ hist' = [Quiet(hist) EXCEPT !.rolled = @ \cup {i},
                                   !.partial = @ \ BatchKeys(batch)]
    /\ LET s == Rollback(Cur)
       IN  db' = s.db /\ tx' = s.tx
    /\ txState' = "none"
    /\ held' = Release(held)
    /\ outcome' = "rolledback"
    /\ pc' = "done"
    /\ UNCHANGED <<billSeq, now, ticks, runs, family, workList, page, i, results, batch,
                   j, txTime, throttles, dbAtBegin, error, cvars, listed, dbAfterFirst>>

\* the catch and finally blocks (src/dbSetup.js:831-836)
BillRollback ==
    /\ pc = "catch" /\ family = "bill"
    /\ hist' = [Quiet(hist) EXCEPT !.rolled = @ \cup {i},
                                   !.partial = @ \ BatchKeys(batch)]
    /\ LET s == Rollback(Cur)
       IN  db' = s.db /\ tx' = s.tx
    /\ txState' = "none"
    /\ held' = Release(held)
    /\ outcome' = "rolledback"
    /\ pc' = "advance"
    /\ UNCHANGED <<billSeq, now, ticks, runs, family, workList, page, i, results, batch,
                   j, txTime, throttles, dbAtBegin, error, cvars, listed, dbAfterFirst>>

\* variant for C27: the loop does not move its cursor
BillAdvanceSameBatch ==
    /\ pc = "advance" /\ family = "bill"
    /\ hist' = Quiet(hist)
    /\ i' = i
    /\ pc' = "fetch"
    /\ results' = <<>>
    /\ batch' = <<>>
    /\ j' = 0
    /\ outcome' = "none"
    /\ txTime' = 0
    /\ dbAtBegin' = db
    /\ error' = "ok"
    /\ UNCHANGED <<db, tx, txState, billSeq, now, ticks, runs, family, held, workList,
                   page, throttles, cvars, listed, dbAfterFirst>>

\* sleep(2000) and the loop's `i += BATCH_SIZE` (src/dbSetup.js:854, 887-891)
BillAdvance ==
    /\ pc = "advance" /\ family = "bill"
    /\ hist' = Quiet(hist)
    /\ i' = i + BATCH_SIZE
    /\ pc' = IF i' < Len(workList) THEN "fetch" ELSE "done"
    /\ results' = <<>>
    /\ batch' = <<>>
    /\ j' = 0
    /\ outcome' = "none"
    /\ txTime' = 0
    /\ dbAtBegin' = db
    /\ error' = "ok"
    /\ UNCHANGED <<db, tx, txState, billSeq, now, ticks, runs, family, held, workList,
                   page, throttles, cvars, listed, dbAfterFirst>>

(***************************************************************************)
(* The process of the bill script is killed, wherever it is.  What it held *)
(* in memory is gone; the server loses the connection and rolls back the   *)
(* transaction that was open on it; what was committed stays.              *)
(***************************************************************************)
Kill ==
    /\ family = "bill" /\ pc \notin {"idle", "done"}
    /\ hist' = [Quiet(hist) EXCEPT
                  !.killedAt = IF txState # "none" THEN "in transaction"
                               ELSE "between transactions",
                  !.partial = IF txState # "none" THEN @ \ BatchKeys(batch) ELSE @]
    /\ pc' = "done"
    /\ tx' = EmptyDb
    /\ txState' = "none"
    /\ held' = 0
    /\ workList' = <<>>
    /\ page' = 0
    /\ i' = 0
    /\ results' = <<>>
    /\ batch' = <<>>
    /\ j' = 0
    /\ outcome' = "none"
    /\ txTime' = 0
    /\ throttles' = 0
    /\ error' = "ok"
    /\ listed' = <<>>
    /\ dbAtBegin' = db
    /\ UNCHANGED <<db, billSeq, now, ticks, runs, family, cvars, dbAfterFirst>>

BillNext ==
    \/ StartBillRun
    \/ BillPlanPage
    \/ BillFetchBatch
    \/ BillCooldown
    \/ BillSaveBegin
    \/ BillResolveSponsors
    \/ BillSaveTurn
    \/ BillCommit
    \/ BillRollback
    \/ BillAdvance

(* -------------------------- the member script ------------------------- *)
(***************************************************************************)
(* INSERT INTO members (...) ... ON CONFLICT (bioguide_id) DO UPDATE SET    *)
(* every column = EXCLUDED.column (src/unnamed/part_001:77-120).           *)
(***************************************************************************)
UpsertMember(s, member, dbError) ==
    Query(s,
        IF dbError THEN Reject(s, "db_error")
        ELSE [s EXCEPT !.tx.members =
                Put(@, member.bioguideId, [first_name |-> member.firstName])])

(***************************************************************************)
(* INSERT INTO member_terms ... ON CONFLICT (member_bioguide_id, congress, *)
(* chamber, district) DO UPDATE SET ..., end_year = EXCLUDED.end_year      *)
(* (src/unnamed/part_001:152-165).  The conflict target is the UNIQUE      *)
(* constraint of src/dbSetup.js:68; a NULL district is distinct from every *)
(* other NULL, so a row without district never conflicts.                  *)
(***************************************************************************)
TermConflict(row, memberId, term) ==
    /\ row.member = memberId
    /\ row.congress = term.congress
    /\ row.chamber = term.chamber
    /\ term.district # Null
    /\ row.district = term.district

UpsertTerm(s, memberId, term) ==
    Query(s,
        LET rows == s.tx.member_terms
        IN  IF \E n \in 1..Len(rows) : TermConflict(rows[n], memberId, term)
            THEN [s EXCEPT !.tx.member_terms =
                    [n \in 1..Len(rows) |->
                        IF TermConflict(rows[n], memberId, term)
                        THEN [rows[n] EXCEPT !.end_year = term.end_year]
                        ELSE rows[n]]]
            ELSE [s EXCEPT !.tx.member_terms =
                    Append(@, [member |-> memberId, congress |-> term.congress,
                               chamber |-> term.chamber, district |-> term.district,
                               end_year |-> term.end_year])])

RECURSIVE UpsertTerms(_, _, _)
UpsertTerms(s, memberId, terms) ==
    IF terms = <<>> THEN s
    ELSE UpsertTerms(UpsertTerm(s, memberId, Head(terms)), memberId, Tail(terms))

(***************************************************************************)
(* One turn of `for (const member of membersData)` (src/unnamed/part_001   *)
(* 75-181): the member row and its terms.  (Address, party history and     *)
(* leadership rows are upserts on constraints without nullable columns.)   *)
(***************************************************************************)
SaveMemberTurn(s, member, dbError) ==
    UpsertTerms(UpsertMember(s, member, dbError), member.bioguideId, member.terms)

\* the values a promise of the member fan-out resolves to besides a member
MemberMarker(kind) ==
    [kind |-> kind, bioguideId |-> "", firstName |-> Null, terms |-> <<>>]

MemberObject(m) ==
    [kind |-> "member", bioguideId |-> m, firstName |-> MemberDetail(m).firstName,
     terms |-> MemberDetail(m).terms]

\* what the promise for one member URL resolves to (src/unnamed/part_001:204-221)
MemberFetchResults(m) ==
    {MemberObject(m), MemberMarker("RATE_LIMIT"), MemberMarker("null"),
     MemberMarker("undefined")}

\* `i -= BATCH_SIZE; continue` and the loop's `i += BATCH_SIZE`
\* (src/unnamed/part_001:225-230)
MemberCursorAfterRateLimit(c) == (c - MEMBER_BATCH_SIZE) + MEMBER_BATCH_SIZE

\* main entering fetchAllMemberUrls (src/unnamed/part_001:193-195, 29-39)
BeginMemberRun ==
    /\ runs' = runs + 1
    /\ family' = "member"
    /\ \E configured \in BOOLEAN :
          /\ pc' = FirstPosition(configured, "plan")
          /\ page' = IF pc' = "plan" THEN 1 ELSE 0
          /\ hist' = NewRun(hist, configured)
    /\ held' = 0
    /\ workList' = <<>>
    /\ i' = 0
    /\ results' = <<>>
    /\ batch' = <<>>
    /\ j' = 0
    /\ outcome' = "none"
    /\ throttles' = 0
    /\ UNCHANGED <<db, tx, txState, billSeq, now, ticks, txTime, dbAtBegin, listed>>
    /\ detailUrls' = <<>>
    /\ allReportUrls' = <<>>
    /\ error' = "ok"
    /\ dbAfterFirst' = IF runs = 1 THEN db ELSE dbAfterFirst

\* the member script is started
StartMemberRun ==
    /\ pc \in {"idle", "done"}
    /\ runs < MaxRuns
    /\ BeginMemberRun

\* the member script is started again right after it ended
MemberRunAgain ==
    /\ pc = "done" /\ family = "member"
    /\ runs < MaxReruns
    /\ BeginMemberRun

\* one turn of `while (nextUrl)` in fetchAllMemberUrls (src/unnamed/part_001
\* 41-66), and on leaving the loop main's test at line 197
MemberPlanPage ==
    /\ pc = "plan" /\ family = "member"
    /\ \E answer \in Answers :
          LET ok == answer = "ok"
              found == Gathered(workList, answer, MemberPages[page])
              more == ok /\ page < Len(MemberPages)
          IN  /\ hist' = Asked(hist, answer)
              /\ workList' = found
              /\ IF more
                 THEN page' = page + 1 /\ pc' = "plan"
                 ELSE page' = 0 /\ pc' = IF found = <<>> THEN "done" ELSE "fetch"
    /\ UNCHANGED <<db, tx, txState, billSeq, now, ticks, runs, family, held, i, results,
                   batch, j, outcome, txTime, throttles, dbAtBegin, error, cvars, listed, dbAfterFirst>>

\* src/unnamed/part_001:200-230: the fan-out over batchUrls and Promise.all
MemberFetchBatch ==
    /\ pc = "fetch" /\ family = "member"
    /\ LET batchUrls == Slice(workList, i, MEMBER_BATCH_SIZE)
       IN  \E rs \in [1..Len(batchUrls) -> UNION {MemberFetchResults(batchUrls[n]) :
                                                   n \in 1..Len(batchUrls)}] :
              /\ \A n \in 1..Len(batchUrls) : rs[n] \in MemberFetchResults(batchUrls[n])
              /\ HasRateLimit(rs) => throttles < MaxThrottle
              /\ results' = rs
              /\ hist' = Asked(hist, FanOutAnswer(rs))
              /\ pc' = IF HasRateLimit(rs) THEN "cooldown" ELSE "save"
    /\ UNCHANGED <<db, tx, txState, billSeq, now, ticks, runs, family, held, workList,
                   page, i, batch, j, outcome, txTime, throttles, dbAtBegin, error, cvars, listed, dbAfterFirst>>

\* src/unnamed/part_001:225-230: sleep(10000), then the same batch again
MemberCooldown ==
    /\ pc = "cooldown" /\ family = "member"
    /\ hist' = Quiet(hist)
    /\ i' = MemberCursorAfterRateLimit(i)
    /\ throttles' = throttles + 1
    /\ results' = <<>>
    /\ pc' = "fetch"
    /\ UNCHANGED <<db, tx, txState, billSeq, now, ticks, runs, family, held, workList,
                   page, batch, j, outcome, txTime, dbAtBegin, error, cvars, listed, dbAfterFirst>>

\* results.filter(m => m != null)  (src/unnamed/part_001:232): null and
\* undefined are both dropped
MembersData(rs) == SelectSeq(rs, LAMBDA m : m.kind = "member")

\* src/unnamed/part_001:232-235 and processMemberBatch up to BEGIN (68-73)
MemberSaveBegin ==
    /\ pc = "save" /\ family = "member"
    /\ hist' = [Quiet(hist) EXCEPT !.attempted = @ \cup {i}]
    /\ LET membersData == MembersData(results)
       IN  IF membersData = <<>>
           THEN /\ outcome' = "empty"
                /\ pc' = "advance"
                /\ j' = 0
                /\ UNCHANGED <<tx, txState, held, batch, txTime, dbAtBegin>>
           ELSE /\ held' = held + 1
                /\ tx' = db
                /\ txState' = "open"
                /\ txTime' = now
                /\ dbAtBegin' = db
                /\ batch' = membersData
                /\ outcome' = "none"
                /\ j' = 1
                /\ pc' = "tx_members"
    /\ UNCHANGED <<db, billSeq, now, ticks, runs, family, workList, page, i, results,
                   throttles, error, cvars, listed, dbAfterFirst>>

\* one turn of `for (const member of membersData)` (src/unnamed/part_001:75-181)
MemberSaveTurn ==
    /\ pc = "tx_members" /\ family = "member"
    /\ hist' = Quiet(hist)
    /\ j <= Len(batch)
    /\ \E dbError \in BOOLEAN :
          AfterStatements(SaveMemberTurn(Cur, batch[j], dbError), "tx_members", "catch")
    /\ j' = j + 1
    /\ UNCHANGED <<now, ticks, runs, family, held, workList, page, i, results, batch,
                   outcome, txTime, throttles, dbAtBegin, cvars, listed, dbAfterFirst>>

\* COMMIT and the finally block (src/unnamed/part_001:183-184, 188-190)
MemberCommit ==
    /\ pc = "tx_members" /\ family = "member"
    /\ j > Len(batch)
    /\ \E dbError \in BOOLEAN :
          LET s == Commit(Cur, dbError)
          IN  /\ db' = s.db
              /\ hist' = IF s.err = "ok" /\ ~s.aborted THEN Committed(hist, s.db)
                         ELSE Quiet(hist)
              /\ error' = s.err
              /\ IF s.err # "ok"
                 THEN /\ pc' = "catch" /\ txState' = "aborted" /\ tx' = tx
                      /\ held' = held /\ outcome' = outcome
                 ELSE /\ pc' = "advance" /\ txState' = "none" /\ tx' = EmptyDb
                      /\ held' = Release(held)
                      /\ outcome' = IF s.aborted THEN "commit_refused" ELSE "committed"
    /\ UNCHANGED <<billSeq, now, ticks, runs, family, workList, page, i, results, batch,
                   j, txTime, throttles, dbAtBegin, cvars, listed, dbAfterFirst>>

\* the catch and finally blocks (src/unnamed/part_001:185-190)
MemberRollback ==
    /\ pc = "catch" /\ family = "member"
    /\ hist' = [Quiet(hist) EXCEPT !.rolled = @ \cup {i}]
    /\ LET s == Rollback(Cur)
       IN  db' = s.db /\ tx' = s.tx
    /\ txState' = "none"
    /\ held' = Release(held)
    /\ outcome' = "rolledback"
    /\ pc' = "advance"
    /\ UNCHANGED <<billSeq, now, ticks, runs, family, workList, page, i, results, batch,
                   j, txTime, throttles, dbAtBegin, error, cvars, listed, dbAfterFirst>>

\* sleep(1000) and the loop's `i += BATCH_SIZE` (src/unnamed/part_001:200, 236-243)
MemberAdvance ==
    /\ pc = "advance" /\ family = "member"
    /\ hist' = Quiet(hist)
    /\ i' = i + MEMBER_BATCH_SIZE
    /\ pc' = IF i' < Len(workList) THEN "fetch" ELSE "done"
    /\ results' = <<>>
    /\ batch' = <<>>
    /\ j' = 0
    /\ outcome' = "none"
    /\ txTime' = 0
    /\ dbAtBegin' = db
    /\ error' = "ok"
    /\ UNCHANGED <<db, tx, txState, billSeq, now, ticks, runs, family, held, workList,
                   page, throttles, cvars, listed, dbAfterFirst>>

MemberNext ==
    \/ StartMemberRun
    \/ MemberPlanPage
    \/ MemberFetchBatch
    \/ MemberCooldown
    \/ MemberSaveBegin
    \/ MemberSaveTurn
    \/ MemberCommit
    \/ MemberRollback
    \/ MemberAdvance

(* ------------------------ the committee script ------------------------ *)
\* BATCH_SIZE of the committee script (src/unnamed/part_000:18 sets 25), scaled
COMMITTEE_BATCH_SIZE == 1

\* the committee objects a page of /committee/<congress> can carry
CommitteeListItems ==
    { [systemCode |-> HSAG, name |-> <<"agriculture">>, chamber |-> ch, parent |-> Null] :
        ch \in {Some("House"), Some("Unknown"), Null} }
    \cup
    { [systemCode |-> HSAG00, name |-> <<"forestry">>, chamber |-> Some("House"),
       parent |-> pa] : pa \in {Null, Some(HSAG), Some(SSAF)} }

\* the committee object /committee/<chamber>/<code> answers with
CommitteeDetail(code) ==
    [systemCode |-> code,
     isCurrent |-> Some(TRUE),
     history |-> IF code = HSAG THEN <<[officialName |-> Some("Committee on Agriculture")],
                                      [officialName |-> Null]>>
                 ELSE <<>>,
     reports |-> IF code = HSAG THEN Some([url |-> HSAG, count |-> 1])
                 ELSE IF code = HSAG00 THEN Some([url |-> HSAG00, count |-> 0])
                 ELSE Null]

\* a report as it comes in a committee's reports listing, with what its detail
\* endpoint lists as associatedBill
ReportItem(citation) ==
    IF citation = R1
    THEN [citation |-> R1, congress |-> CURRENT_CONGRESS, associatedBill |-> <<K1, K4>>]
    ELSE [citation |-> R2, congress |-> CURRENT_CONGRESS - 1, associatedBill |-> <<K4>>]

\* the pages of the reports listing of a committee
ReportPages(code) == IF code = HSAG THEN << <<R1>>, <<R2>> >> ELSE << <<R1>> >>

(***************************************************************************)
(* Pass 1 of upsertBaseCommittees (src/unnamed/part_000:82-96): INSERT     *)
(* INTO committees (system_code, name, chamber, committee_type_code) ...   *)
(* ON CONFLICT (system_code) DO UPDATE SET name, chamber, type =           *)
(* EXCLUDED.*.  chamber is committee.chamber as received; the column is    *)
(* NOT NULL (src/dbSetup.js:85).                                           *)
(***************************************************************************)
UpsertBaseCommittee(s, committee) ==
    Query(s,
        IF committee.chamber = Null THEN Reject(s, "not_null_committees_chamber")
        ELSE IF committee.systemCode \in DOMAIN s.tx.committees
        THEN [s EXCEPT !.tx.committees[committee.systemCode] =
                [@ EXCEPT !.name = committee.name, !.chamber = committee.chamber[1]]]
        ELSE [s EXCEPT !.tx.committees =
                Put(@, committee.systemCode,
                    [name |-> committee.name, chamber |-> committee.chamber[1],
                     parent |-> Null, is_current |-> Null])])

\* variant for C6: the two values of pass 2's UPDATE are given in the other order
LinkParentSwapped(s, committee) ==
    IF committee.parent = Null THEN s
    ELSE Query(s,
            IF committee.parent[1] \notin DOMAIN s.tx.committees THEN s
            ELSE IF committee.systemCode \notin DOMAIN s.tx.committees
            THEN Reject(s, "fk_committees_parent")
            ELSE [s EXCEPT !.tx.committees[committee.parent[1]].parent =
                    Some(committee.systemCode)])

(***************************************************************************)
(* Pass 2 (src/unnamed/part_000:99-108): UPDATE committees SET             *)
(* parent_committee_system_code = $1 WHERE system_code = $2, for the       *)
(* committees that declare a parent.  The column REFERENCES committees.    *)
(***************************************************************************)
LinkParent(s, committee) ==
    IF committee.parent = Null THEN s
    ELSE Query(s,
            IF committee.systemCode \notin DOMAIN s.tx.committees THEN s
            ELSE IF committee.parent[1] \notin DOMAIN s.tx.committees
            THEN Reject(s, "fk_committees_parent")
            ELSE [s EXCEPT !.tx.committees[committee.systemCode].parent =
                    committee.parent])

RECURSIVE Pass1(_, _)
Pass1(s, committeesData) ==
    IF committeesData = <<>> THEN s
    ELSE Pass1(UpsertBaseCommittee(s, Head(committeesData)), Tail(committeesData))

RECURSIVE Pass2(_, _, _)
Pass2(s, committeesData, n) ==
    IF n > Len(committeesData) THEN s
    ELSE Pass2(LinkParent(s, committeesData[n]), committeesData, n + 1)

\* detailUrls: one per committee pass 1 reached before an exception left it
\* (src/unnamed/part_000:83)
RECURSIVE DetailUrlsPushed(_, _)
DetailUrlsPushed(s, committeesData) ==
    IF committeesData = <<>> \/ s.err # "ok" THEN <<>>
    ELSE <<Head(committeesData).systemCode>>
         \o DetailUrlsPushed(UpsertBaseCommittee(s, Head(committeesData)),
                             Tail(committeesData))

\* BEGIN ... COMMIT of upsertBaseCommittees, or ROLLBACK in its catch block
\* (src/unnamed/part_000:77-117)
upsertBaseCommittees(s, committeesData, dbError) ==
    LET s0 == IF dbError THEN Reject(s, "db_error") ELSE s
        s2 == Pass2(Pass1(s0, committeesData), committeesData, 1)
    IN  IF s2.err # "ok" THEN Rollback(s2) ELSE Commit(s2, FALSE)

(***************************************************************************)
(* One turn of `for (const url of detailUrls)` in                          *)
(* processCommitteeDetailsBatch after the fetch (src/unnamed/part_000      *)
(* 138-161): UPDATE committees SET is_current, updated_at WHERE            *)
(* system_code; then one INSERT INTO committee_history ... ON CONFLICT DO  *)
(* NOTHING per history item with an officialName.  committee_history has   *)
(* no unique constraint besides its id (src/dbSetup.js:92-99), so the      *)
(* insert never conflicts; committee_system_code REFERENCES committees.    *)
(***************************************************************************)
UpdateCommitteeCurrent(s, committee) ==
    Query(s,
        IF committee.systemCode \notin DOMAIN s.tx.committees THEN s
        ELSE [s EXCEPT !.tx.committees[committee.systemCode].is_current =
                committee.isCurrent])

InsertHistory(s, code, historyItem) ==
    IF historyItem.officialName = Null THEN s
    ELSE Query(s,
            IF code \notin DOMAIN s.tx.committees
            THEN Reject(s, "fk_committee_history")
            ELSE [s EXCEPT !.tx.committee_history =
                    Append(@, [code |-> code,
                               official_name |-> historyItem.officialName])])

RECURSIVE InsertHistories(_, _, _)
InsertHistories(s, code, history) ==
    IF history = <<>> THEN s
    ELSE InsertHistories(InsertHistory(s, code, Head(history)), code, Tail(history))

(***************************************************************************)
(* The freshness check (src/unnamed/part_000:163-200): total_reports and   *)
(* reports_with_bills of the committee for the target congress, and the    *)
(* test `reportsWithoutBills > 0 || committee.reports.count > 0`.          *)
(* FORCE_UPDATE_REPORTS (line 19) is read nowhere.                         *)
(***************************************************************************)
\* `const FORCE_UPDATE_REPORTS = true` (src/unnamed/part_000:19)
FORCE_UPDATE_REPORTS == TRUE

CommitteeReportsOf(d, code) ==
    {c \in DOMAIN d.committee_reports :
        /\ <<c, code>> \in d.report_committees
        /\ d.committee_reports[c].congress = CURRENT_CONGRESS}

ReportsWithBills(d, code) ==
    {c \in CommitteeReportsOf(d, code) :
        \E l \in d.report_associated_bills : l[1] = c}

\* variant for C17: only the upstream count decides
NeedsReportsCountOnly(d, committee) == committee.reports[1].count > 0

NeedsReports(d, committee) ==
    LET currentCongressReports == Cardinality(CommitteeReportsOf(d, committee.systemCode))
        reportsWithBills == Cardinality(ReportsWithBills(d, committee.systemCode))
        reportsWithoutBills == currentCongressReports - reportsWithBills
    IN  reportsWithoutBills > 0 \/ committee.reports[1].count > 0

\* the writes of one turn; the SELECT of the check is a statement too
SaveCommitteeDetail(s, committee) ==
    LET s1 == InsertHistories(UpdateCommitteeCurrent(s, committee),
                              committee.systemCode, committee.history)
    IN  IF committee.reports = Null THEN s1 ELSE Query(s1, s1)

(***************************************************************************)
(* The writes for one report of a listing page in processCommitteeReports  *)
(* (src/unnamed/part_000:231-330).                                         *)
(***************************************************************************)
\* INSERT INTO committee_reports ... ON CONFLICT (citation) DO UPDATE SET
\* updated_at = EXCLUDED.updated_at RETURNING id  (lines 241-251)
UpsertReport(s, report) ==
    Query(s,
        IF report.citation \in DOMAIN s.tx.committee_reports THEN s
        ELSE [s EXCEPT !.tx.committee_reports =
                Put(@, report.citation, [congress |-> report.congress, title |-> Null])])

\* INSERT INTO report_committees ... ON CONFLICT DO NOTHING  (lines 254-260)
LinkReportCommittee(s, citation, code) ==
    Query(s,
        IF code \notin DOMAIN s.tx.committees THEN Reject(s, "fk_report_committees")
        ELSE [s EXCEPT !.tx.report_committees = @ \cup {<<citation, code>>}])

\* UPDATE committee_reports SET title = COALESCE($1, title), ...  (lines 277-286)
UpdateReportDetail(s, citation, dbError) ==
    Query(s,
        IF dbError THEN Reject(s, "db_error")
        ELSE [s EXCEPT !.tx.committee_reports[citation].title = Some("Report")])

\* variant for C8: the stub replaces the row it conflicts with (a new id)
UpsertAssociatedBillStubReplacing(s, k) ==
    Query(s, [s EXCEPT !.seq = @ + 1,
                       !.tx.bills = Put(@, k, [id |-> s.seq + 1, title |-> Null,
                                               sponsor |-> Null, wm |-> Null])])

\* INSERT INTO bills (congress, type, number) ... ON CONFLICT (congress, type,
\* number) DO UPDATE SET congress = EXCLUDED.congress RETURNING id  (292-303)
UpsertAssociatedBillStub(s, k) ==
    Query(s,
        IF k \in DOMAIN s.tx.bills THEN s
        ELSE [s EXCEPT !.seq = @ + 1,
                       !.tx.bills = Put(@, k, [id |-> s.seq + 1, title |-> Null,
                                               sponsor |-> Null, wm |-> Null])])

\* INSERT INTO report_associated_bills ... ON CONFLICT DO NOTHING  (306-313)
LinkAssociatedBill(s, citation, k) ==
    Query(s, [s EXCEPT !.tx.report_associated_bills =
                @ \cup {<<citation, s.tx.bills[k].id>>}])

RECURSIVE SaveAssociatedBills(_, _, _)
SaveAssociatedBills(s, citation, associatedBill) ==
    IF associatedBill = <<>> THEN s
    ELSE LET k == Head(associatedBill)
         IN  SaveAssociatedBills(
                LinkAssociatedBill(UpsertAssociatedBillStub(s, k), citation, k),
                citation, Tail(associatedBill))

\* the inner try/catch around the detail fetch (lines 264-328): whatever is
\* thrown inside is logged and dropped, the transaction stays as it is
ReportDetailBlock(s, report, io) ==
    IF s.err # "ok" THEN s
    ELSE LET inner ==
               IF io.detail = "throw" THEN Throw(s, "fetch")
               ELSE IF io.detail \in {"status", "throttled"} THEN s
               ELSE SaveAssociatedBills(
                        UpdateReportDetail(s, report.citation, io.dbError),
                        report.citation, report.associatedBill)
         IN  [inner EXCEPT !.err = "ok"]

SaveReport(s, code, report, io) ==
    IF report.congress # CURRENT_CONGRESS THEN s
    ELSE ReportDetailBlock(
            LinkReportCommittee(UpsertReport(s, report), report.citation, code),
            report, io)

RECURSIVE SaveReports(_, _, _, _)
SaveReports(s, code, reports, io) ==
    IF reports = <<>> THEN s
    ELSE SaveReports(SaveReport(s, code, ReportItem(Head(reports)), io),
                     code, Tail(reports), io)

\* what the upstream and the server can do during one page of reports
ReportIo == { [detail |-> d, dbError |-> e] : d \in Answers, e \in BOOLEAN }

\* the page holds a report of the target congress: its detail is requested
DetailsFetched(reports) ==
    \E n \in 1..Len(reports) : ReportItem(reports[n]).congress = CURRENT_CONGRESS

\* main entering fetchAllCommittees (src/unnamed/part_000:349-353, 35-43)
BeginCommitteeRun ==
    /\ runs' = runs + 1
    /\ family' = "committee"
    /\ \E configured \in BOOLEAN :
          /\ pc' = FirstPosition(configured, "c_list")
          /\ page' = IF pc' = "c_list" THEN 1 ELSE 0
          /\ hist' = NewRun(hist, configured)
    /\ held' = 0
    /\ workList' = <<>>
    /\ i' = 0
    /\ results' = <<>>
    /\ batch' = <<>>
    /\ j' = 0
    /\ outcome' = "none"
    /\ throttles' = 0
    /\ detailUrls' = <<>>
    /\ allReportUrls' = <<>>
    /\ error' = "ok"
    /\ dbAfterFirst' = IF runs = 1 THEN db ELSE dbAfterFirst
    /\ UNCHANGED <<db, tx, txState, billSeq, now, ticks, txTime, dbAtBegin, listed>>

\* the committee script is started
StartCommitteeRun ==
    /\ pc \in {"idle", "done"}
    /\ runs < MaxRuns
    /\ BeginCommitteeRun

\* the committee script is started again right after it ended
CommitteeRunAgain ==
    /\ pc = "done" /\ family = "committee"
    /\ runs < MaxReruns
    /\ BeginCommitteeRun

\* one turn of `while (nextUrl)` in fetchAllCommittees (src/unnamed/part_000
\* 45-61), and on leaving the loop main's test at line 354.  A page carries
\* one committee the earlier pages did not carry.
CommListPage ==
    /\ pc = "c_list" /\ family = "committee"
    /\ \E answer \in Answers, more \in BOOLEAN, item \in CommitteeListItems :
       LET ok == answer = "ok"
       IN /\ hist' = Asked(hist, answer)
          /\ more => ok /\ page < MaxListPages
          /\ ok => \A n \in 1..Len(workList) : workList[n].systemCode # item.systemCode
          /\ workList' = Gathered(workList, answer, <<item>>)
          /\ IF more
             THEN page' = page + 1 /\ pc' = "c_list"
             ELSE page' = 0 /\ pc' = IF workList' = <<>> THEN "done" ELSE "c_base"
    /\ UNCHANGED <<db, tx, txState, billSeq, now, ticks, runs, family, held, i, results,
                   batch, j, outcome, txTime, throttles, dbAtBegin, error, cvars, listed,
                   dbAfterFirst>>

\* the session upsertBaseCommittees works in once BEGIN was answered
BaseSession(d, q, dbError) ==
    IF dbError THEN Reject(Session(d, d, q), "db_error") ELSE Session(d, d, q)

\* upsertBaseCommittees (src/unnamed/part_000:73-119) and main's lines 361-366
CommUpsertBase ==
    /\ pc = "c_base" /\ family = "committee"
    /\ \E dbError \in BOOLEAN :
          LET s == upsertBaseCommittees(Session(db, db, billSeq), workList, dbError)
              urls == DetailUrlsPushed(BaseSession(db, billSeq, dbError), workList)
          IN  /\ db' = s.db
              /\ hist' = IF s.err = "ok" THEN Committed(hist, s.db) ELSE Quiet(hist)
              /\ error' = s.err
              /\ outcome' = IF s.err = "ok" THEN "committed" ELSE "rolledback"
              /\ detailUrls' = urls
              /\ pc' = IF urls = <<>> THEN "done" ELSE "c_details"
    /\ held' = Release(held + 1)
    /\ dbAtBegin' = db
    /\ i' = 0
    /\ UNCHANGED <<tx, txState, billSeq, now, ticks, runs, family, workList, page,
                   results, batch, j, txTime, throttles, allReportUrls, listed,
                   dbAfterFirst>>

\* processCommitteeDetailsBatch up to BEGIN (src/unnamed/part_000:126-131)
CommDetailsBegin ==
    /\ pc = "c_details" /\ family = "committee"
    /\ hist' = Quiet(hist)
    /\ batch' = Slice(detailUrls, i, COMMITTEE_BATCH_SIZE)
    /\ held' = held + 1
    /\ tx' = db
    /\ txState' = "open"
    /\ txTime' = now
    /\ dbAtBegin' = db
    /\ outcome' = "none"
    /\ error' = "ok"
    /\ j' = 1
    /\ pc' = "c_dtx"
    /\ UNCHANGED <<db, billSeq, now, ticks, runs, family, workList, page, i, results,
                   throttles, cvars, listed, dbAfterFirst>>

\* one turn of `for (const url of detailUrls)` (src/unnamed/part_000:132-202):
\* the fetch inside the transaction, the writes, the freshness check
CommDetailsTurn ==
    /\ pc = "c_dtx" /\ family = "committee"
    /\ j <= Len(batch)
    /\ \E answer \in Answers \cup {"nocommittee"} :
          LET committee == CommitteeDetail(batch[j])
              s == IF answer = "throw" THEN Throw(Cur, "fetch")
                   ELSE IF answer = "ok" THEN SaveCommitteeDetail(Cur, committee)
                   ELSE Cur
              queued == /\ answer = "ok" /\ s.err = "ok"
                        /\ committee.reports # Null
                        /\ NeedsReports(s.tx, committee)
          IN  /\ AfterStatements(s, "c_dtx", "c_dcatch")
              /\ hist' = Asked(hist, answer)
              /\ allReportUrls' = IF queued
                                  THEN Append(allReportUrls, committee.systemCode)
                                  ELSE allReportUrls
    /\ j' = j + 1
    /\ UNCHANGED <<now, ticks, runs, family, held, workList, page, i, results, batch,
                   outcome, txTime, throttles, detailUrls, dbAtBegin, listed,
                   dbAfterFirst>>

\* COMMIT and the finally block (src/unnamed/part_000:203, 207-210)
CommDetailsCommit ==
    /\ pc = "c_dtx" /\ family = "committee"
    /\ j > Len(batch)
    /\ \E dbError \in BOOLEAN :
          LET s == Commit(Cur, dbError)
          IN  /\ db' = s.db
              /\ hist' = IF s.err = "ok" /\ ~s.aborted THEN Committed(hist, s.db)
                         ELSE Quiet(hist)
              /\ error' = s.err
              /\ IF s.err # "ok"
                 THEN /\ pc' = "c_dcatch" /\ txState' = "aborted" /\ tx' = tx
                      /\ held' = held /\ outcome' = outcome
                 ELSE /\ pc' = "c_dadvance" /\ txState' = "none" /\ tx' = EmptyDb
                      /\ held' = Release(held)
                      /\ outcome' = IF s.aborted THEN "commit_refused" ELSE "committed"
    /\ UNCHANGED <<billSeq, now, ticks, runs, family, workList, page, i, results, batch,
                   j, txTime, throttles, dbAtBegin, cvars, listed, dbAfterFirst>>

\* the catch and finally blocks (src/unnamed/part_000:204-209)
CommDetailsRollback ==
    /\ pc = "c_dcatch" /\ family = "committee"
    /\ hist' = Quiet(hist)
    /\ LET s == Rollback(Cur)
       IN  db' = s.db /\ tx' = s.tx
    /\ txState' = "none"
    /\ held' = Release(held)
    /\ outcome' = "rolledback"
    /\ pc' = "c_dadvance"
    /\ UNCHANGED <<billSeq, now, ticks, runs, family, workList, page, i, results, batch,
                   j, txTime, throttles, dbAtBegin, error, cvars, listed, dbAfterFirst>>

\* `allReportUrls.push(...reportUrls)`, sleep(500), `i += BATCH_SIZE`
\* (src/unnamed/part_000:366-375)
CommDetailsAdvance ==
    /\ pc = "c_dadvance" /\ family = "committee"
    /\ hist' = Quiet(hist)
    /\ IF i + COMMITTEE_BATCH_SIZE < Len(detailUrls)
       THEN i' = i + COMMITTEE_BATCH_SIZE /\ pc' = "c_details"
       ELSE i' = 0 /\ pc' = IF allReportUrls = <<>> THEN "done" ELSE "c_reports"
    /\ batch' = <<>>
    /\ j' = 0
    /\ outcome' = "none"
    /\ txTime' = 0
    /\ dbAtBegin' = db
    /\ error' = "ok"
    /\ UNCHANGED <<db, tx, txState, billSeq, now, ticks, runs, family, held, workList,
                   page, results, throttles, cvars, listed, dbAfterFirst>>

\* processCommitteeReports up to BEGIN (src/unnamed/part_000:217-224), called
\* from main's loop at lines 377-381
CommReportsBegin ==
    /\ pc = "c_reports" /\ family = "committee"
    /\ hist' = Quiet(hist)
    /\ held' = held + 1
    /\ tx' = db
    /\ txState' = "open"
    /\ txTime' = now
    /\ dbAtBegin' = db
    /\ outcome' = "none"
    /\ error' = "ok"
    /\ page' = 1
    /\ pc' = "c_rtx"
    /\ UNCHANGED <<db, billSeq, now, ticks, runs, family, workList, i, results, batch, j,
                   throttles, cvars, listed, dbAfterFirst>>

\* one turn of `while (nextUrl)` (src/unnamed/part_000:225-334): the page
\* fetch inside the transaction and the writes for the page's reports
CommReportsPage ==
    /\ pc = "c_rtx" /\ family = "committee"
    /\ page > 0
    /\ LET code == allReportUrls[i + 1]
       IN  \E answer \in Answers, io \in ReportIo :
              /\ answer # "ok" => io = [detail |-> "ok", dbError |-> FALSE]
              /\ LET s == IF answer = "throw" THEN Throw(Cur, "fetch")
                          ELSE IF answer # "ok" THEN Cur
                          ELSE SaveReports(Cur, code, ReportPages(code)[page], io)
                 IN  AfterStatements(s, "c_rtx", "c_rcatch")
              /\ hist' = Asked(hist,
                    IF answer = "ok" /\ DetailsFetched(ReportPages(code)[page])
                    THEN Worst({answer, io.detail}) ELSE answer)
              /\ page' = IF answer = "ok" /\ page < Len(ReportPages(code))
                         THEN page + 1 ELSE 0
    /\ UNCHANGED <<now, ticks, runs, family, held, workList, i, results, batch, j,
                   outcome, txTime, throttles, dbAtBegin, cvars, listed, dbAfterFirst>>

\* COMMIT and the finally block (src/unnamed/part_000:335-336, 340-342)
CommReportsCommit ==
    /\ pc = "c_rtx" /\ family = "committee"
    /\ page = 0
    /\ \E dbError \in BOOLEAN :
          LET s == Commit(Cur, dbError)
          IN  /\ db' = s.db
              /\ hist' = IF s.err = "ok" /\ ~s.aborted THEN Committed(hist, s.db)
                         ELSE Quiet(hist)
              /\ error' = s.err
              /\ IF s.err # "ok"
                 THEN /\ pc' = "c_rcatch" /\ txState' = "aborted" /\ tx' = tx
                      /\ held' = held /\ outcome' = outcome
                 ELSE /\ pc' = "c_radvance" /\ txState' = "none" /\ tx' = EmptyDb
                      /\ held' = Release(held)
                      /\ outcome' = IF s.aborted THEN "commit_refused" ELSE "committed"
    /\ UNCHANGED <<billSeq, now, ticks, runs, family, workList, page, i, results, batch,
                   j, txTime, throttles, dbAtBegin, cvars, listed, dbAfterFirst>>

\* the catch and finally blocks (src/unnamed/part_000:337-342)
CommReportsRollback ==
    /\ pc = "c_rcatch" /\ family = "committee"
    /\ hist' = Quiet(hist)
    /\ LET s == Rollback(Cur)
       IN  db' = s.db /\ tx' = s.tx
    /\ txState' = "none"
    /\ held' = Release(held)
    /\ outcome' = "rolledback"
    /\ page' = 0
    /\ pc' = "c_radvance"
    /\ UNCHANGED <<billSeq, now, ticks, runs, family, workList, i, results, batch,
                   j, txTime, throttles, dbAtBegin, error, cvars, listed, dbAfterFirst>>

\* sleep(250) and the loop's `i++` (src/unnamed/part_000:377-389)
CommReportsAdvance ==
    /\ pc = "c_radvance" /\ family = "committee"
    /\ hist' = Quiet(hist)
    /\ i' = i + 1
    /\ pc' = IF i' < Len(allReportUrls) THEN "c_reports" ELSE "done"
    /\ outcome' = "none"
    /\ txTime' = 0
    /\ dbAtBegin' = db
    /\ error' = "ok"
    /\ UNCHANGED <<db, tx, txState, billSeq, now, ticks, runs, family, held, workList,
                   page, results, batch, j, throttles, cvars, listed, dbAfterFirst>>

CommitteeNext ==
    \/ StartCommitteeRun
    \/ CommListPage
    \/ CommUpsertBase
    \/ CommDetailsBegin
    \/ CommDetailsTurn
    \/ CommDetailsCommit
    \/ CommDetailsRollback
    \/ CommDetailsAdvance
    \/ CommReportsBegin
    \/ CommReportsPage
    \/ CommReportsCommit
    \/ CommReportsRollback
    \/ CommReportsAdvance

Next == BillNext \/ MemberNext \/ CommitteeNext \/ Tick

Spec == Init /\ [][Next]_vars

\* the member or the committee script, run and then run again
NextRerun == MemberNext \/ MemberRunAgain \/ CommitteeNext \/ CommitteeRunAgain

SpecRerun == Init /\ [][NextRerun]_vars

\* the bill script, killed or run to its end, and then run again
NextResume == BillNext \/ Kill \/ BillRunAgain \/ Tick

SpecResume == Init /\ [][NextResume]_vars

\* the bill or the member script, its process always going on to its next
\* step; the upstream answers 429 at most MaxThrottle times in a run
NextLive == BillNext \/ MemberNext

SpecLive == Init /\ [][NextLive]_vars /\ WF_vars(NextLive)

(* ------------- fetchPaginatedSubEndpoint, one request a step ----------- *)
(***************************************************************************)
(* fetchPaginatedSubEndpoint (src/dbSetup.js:455-482) called on a listing: *)
(* workList holds the pages of the listing (data[key] of each page, in     *)
(* pagination.next order), page the position of nextUrl among them,        *)
(* results the array `items`, throttles the 429 answers received.          *)
(***************************************************************************)
\* pages a sub-resource listing can have
MaxSubPages == 3

SubPageChoices == {<<>>, <<"a">>, <<"b", "c">>}

SubListings ==
    UNION {[1..n -> SubPageChoices] : n \in 1..MaxSubPages}

InitSub ==
    /\ db = EmptyDb /\ billSeq = 0 /\ dbAtBegin = EmptyDb
    /\ hist = HistInit(EmptyDb)
    /\ tx = EmptyDb
    /\ txState = "none"
    /\ now = Day0
    /\ ticks = 0
    /\ runs = 0
    /\ family = "sub"
    /\ pc = "sub"
    /\ held = 0
    /\ workList \in SubListings
    /\ page = 1
    /\ i = 0
    /\ results = <<>>
    /\ batch = <<>>
    /\ j = 0
    /\ outcome = "none"
    /\ txTime = 0
    /\ throttles = 0
    /\ error = "ok"
    /\ detailUrls = <<>>
    /\ allReportUrls = <<>>
    /\ listed = <<>>
    /\ dbAfterFirst = EmptyDb

\* variant for C25: a 429 moves on to the next page
SubSkippingPage(cursor) == cursor + 1

\* `continue; // Retry the same URL` (lines 462-466): nextUrl is not assigned
SubAfterThrottle(cursor) == cursor

\* one turn of `while(nextUrl)` (lines 458-479)
SubPage ==
    /\ pc = "sub" /\ family = "sub"
    /\ \E answer \in Answers :
          /\ hist' = Asked(hist, answer)
          /\ IF answer = "throttled"
             THEN /\ throttles < MaxThrottle
                  /\ throttles' = throttles + 1
                  /\ page' = SubAfterThrottle(page)
                  /\ results' = results
                  /\ pc' = "sub"
             ELSE IF answer = "ok"
             THEN /\ results' = results \o workList[page]
                  /\ page' = page + 1
                  /\ pc' = IF page' > Len(workList) THEN "sub_done" ELSE "sub"
                  /\ throttles' = throttles
             ELSE /\ results' = results
                  /\ page' = page
                  /\ pc' = "sub_done"
                  /\ throttles' = throttles
    /\ UNCHANGED <<db, tx, txState, billSeq, now, ticks, runs, family, held, workList, i,
                   batch, j, outcome, txTime, dbAtBegin, error, cvars, listed,
                   dbAfterFirst>>

NextSub == SubPage

SpecSub == InitSub /\ [][NextSub]_vars

(* ============================== properties ============================ *)
\* the bills the listing holds, over all its pages
AllListedBills == UNION {Range(BillPages[n]) : n \in 1..Len(BillPages)}

\* every bill key the upstream payloads mention
AllBillKeys == {K1, K2, K3, K4}

\* the bill has no row, no watermark, or a watermark not newer than seven days
StaleAt(d, k, t) ==
    \/ k \notin DOMAIN d.bills
    \/ d.bills[k].wm = Null
    \/ d.bills[k].wm[1] <= t - FRESH_DAYS

\* the keys of the bill objects of a batch
TopLevelKeys(b) == {b[n].key : n \in {m \in 1..Len(b) : b[m].kind = "bill"}}

\* planning is over and no batch of the run has been written yet
PlannedNotWritten == family = "bill" /\ pc \in {"fetch", "cooldown", "save"} /\ i = 0

(***************************************************************************)
(* C1 - Batch atomicity.  While a batch transaction of the bill or member  *)
(* script is open, and after it ended with a rollback (an exception in any *)
(* write of any record) or with a COMMIT the server turned into a          *)
(* rollback, the committed tables are exactly those from before the batch  *)
(* began: no row of any record of the batch is visible.                    *)
(***************************************************************************)
C1_BatchAtomicity ==
    (/\ family \in {"bill", "member"}
     /\ \/ pc \in {"tx_sponsors", "tx_bills", "tx_members", "catch"}
        \/ pc = "advance" /\ outcome \in {"rolledback", "commit_refused"})
    => db = dbAtBegin

\* the second bill of a batch failed after the first one inserted a bill row
\* (the id sequence moved), and the batch was rolled back
C1_Witness ==
    /\ family = "bill" /\ pc = "advance" /\ outcome = "rolledback"
    /\ Len(batch) = 2 /\ j = 3
    /\ error # "fetch"
    /\ DOMAIN db.bills = {} /\ billSeq > 0

(***************************************************************************)
(* C2 - Staleness planning, on the listing pages that were received: from  *)
(* the moment a page is filtered until the first batch is written, a bill  *)
(* of a received page is in the work list iff it has no stored row, or its *)
(* watermark is null, or its watermark is not newer than seven days before *)
(* now.                                                                    *)
(***************************************************************************)
C2_StalenessPlanning ==
    (family = "bill" /\ (pc = "plan" \/ PlannedNotWritten))
    => \A k \in Range(listed) : (k \in Range(workList)) <=> StaleAt(db, k, now)

\* all three listed bills were received; the one processed six days ago is
\* left out, the one processed exactly seven days ago is planned
C2_Witness ==
    /\ PlannedNotWritten /\ pc = "fetch"
    /\ listed = <<K1, K2, K3>>
    /\ workList = <<K1, K3>>
    /\ LastProcessed(db, K1) = Some(now - FRESH_DAYS)

\* C2 as stated: the same for every bill listed upstream, whatever pages
\* the planner received
C2_EveryListedBill ==
    PlannedNotWritten
    => \A k \in AllListedBills : (k \in Range(workList)) <=> StaleAt(db, k, now)

(***************************************************************************)
(* C3 - Referential safety as stated: the batch write of a bill whose      *)
(* sponsor is not in storage never fails the foreign key from bills to     *)
(* members.                                                                *)
(***************************************************************************)
C3_SponsorForeignKeyNeverFails ==
    ~(family = "bill" /\ pc = "catch" /\ error = "fk_bills_sponsor")

(***************************************************************************)
(* C4 - Rate-limit resilience.  In the bill and member loops: the cooldown *)
(* step goes back to fetching the same slice of the same work list with no *)
(* table changed; an attempt whose results hold a RATE_LIMIT marker goes   *)
(* to the cooldown and never to the batch writer; and the cursor only      *)
(* moves forward when the last attempt held no RATE_LIMIT marker.          *)
(***************************************************************************)
RateLimitStep ==
    (family \in {"bill", "member"} /\ family' = family) =>
        /\ (pc = "cooldown") =>
              (/\ pc' = "fetch"
               /\ i' = i
               /\ workList' = workList
               /\ db' = db /\ tx' = tx /\ txState' = txState)
        /\ (pc = "fetch" /\ HasRateLimit(results')) =>
              (pc' = "cooldown" /\ db' = db /\ tx' = tx)
        /\ (i' > i) => (~HasRateLimit(results) /\ pc = "advance")

C4_RateLimitResilience == [][RateLimitStep]_vars

\* the second batch of the bill run is being fetched again after a cooldown
C4_Witness ==
    /\ family = "bill" /\ pc = "fetch"
    /\ throttles = 1 /\ i = BATCH_SIZE /\ results = <<>>
    /\ outcome = "none"

(***************************************************************************)
(* C5 - Chamber monotonicity.  In the bill script (the caller of           *)
(* ensureCommitteeExists) a committee whose chamber is a value other than  *)
(* 'Unknown' keeps its row and that chamber in every step, in the          *)
(* committed tables and inside the open transaction.                       *)
(***************************************************************************)
KnownChambersKept(before, after) ==
    \A c \in DOMAIN before.committees :
        before.committees[c].chamber # "Unknown" =>
            /\ c \in DOMAIN after.committees
            /\ after.committees[c].chamber = before.committees[c].chamber

ChamberStep ==
    (family = "bill" /\ family' = "bill") =>
        /\ KnownChambersKept(db, db')
        /\ (txState # "none" /\ txState' # "none") => KnownChambersKept(tx, tx')

C5_ChamberMonotonic == [][ChamberStep]_vars

\* HSAG was stored as 'House'; the bill whose committees listing carries HSAG
\* with chamber 'Unknown' and then XLIB was written and committed
C5_Witness ==
    /\ family = "bill" /\ pc = "advance" /\ outcome = "committed"
    /\ HSAG \in DOMAIN dbAtBegin.committees
    /\ dbAtBegin.committees[HSAG].chamber = "House"
    /\ K3 \in TopLevelKeys(batch)
    /\ <<db.bills[K3].id, XLIB, "Markup by">> \in db.bill_committees
    /\ db.committees[HSAG].chamber = "House"

(***************************************************************************)
(* C6 - Two-pass hierarchy linking.  Right after upsertBaseCommittees      *)
(* committed, every committee of the input has a row, and every committee  *)
(* whose declared parent is in the input too has its parent pointer set to *)
(* that parent, wherever parent and child stand in the input.              *)
(***************************************************************************)
BatchCodes(committeesData) ==
    {committeesData[n].systemCode : n \in 1..Len(committeesData)}

BaseJustCommitted == family = "committee" /\ pc = "c_details" /\ outcome = "committed"

C6_TwoPassLinking ==
    BaseJustCommitted =>
        \A n \in 1..Len(workList) :
            LET c == workList[n]
            IN  /\ c.systemCode \in DOMAIN db.committees
                /\ (c.parent # Null /\ c.parent[1] \in BatchCodes(workList)) =>
                      (db.committees[c.systemCode].parent = c.parent)

\* the child came before its parent, neither had a row, both are linked now
C6_Witness ==
    /\ BaseJustCommitted
    /\ Len(workList) = 2
    /\ workList[1].systemCode = HSAG00 /\ workList[1].parent = Some(HSAG)
    /\ workList[2].systemCode = HSAG
    /\ DOMAIN dbAtBegin.committees = {}
    /\ db.committees[HSAG00].parent = Some(HSAG)

(***************************************************************************)
(* C7 - Watermark advance.  The stored watermark of a bill changes in a    *)
(* step iff that step is the COMMIT of a bill batch that holds the bill as *)
(* a top-level record, and it becomes the time of that transaction; stub   *)
(* writes, rolled back batches and the other scripts leave it as it was.   *)
(***************************************************************************)
WatermarkStep ==
    \A k \in AllBillKeys :
        /\ (LastProcessed(db', k) # LastProcessed(db, k)) <=>
              (/\ family = "bill" /\ pc = "tx_bills"
               /\ pc' = "advance" /\ outcome' = "committed"
               /\ k \in TopLevelKeys(batch))
        /\ (LastProcessed(db', k) # LastProcessed(db, k)) =>
              (LastProcessed(db', k) = Some(txTime))

C7_WatermarkAdvance == [][WatermarkStep]_vars

\* a committed batch wrote K2 top-level and K4 as a related-bill stub
C7_Witness ==
    /\ family = "bill" /\ pc = "advance" /\ outcome = "committed"
    /\ K2 \in TopLevelKeys(batch)
    /\ LastProcessed(db, K2) = Some(txTime)
    /\ K4 \in DOMAIN db.bills /\ K4 \notin DOMAIN dbAtBegin.bills
    /\ LastProcessed(db, K4) = Null

(***************************************************************************)
(* C8 - Bill key uniqueness.  In every step of every script (top-level     *)
(* bill upserts, related-bill stubs, report-associated-bill stubs), in the *)
(* committed tables and inside the open transaction: the bills table holds *)
(* one row per (congress, type, number) with an id no other row has, and a *)
(* bill that has a row keeps the row and its id.                           *)
(***************************************************************************)
BillIds(d) == {d.bills[k].id : k \in DOMAIN d.bills}

OneRowPerKey(d) == Cardinality(BillIds(d)) = Cardinality(DOMAIN d.bills)

IdsKept(before, after) ==
    \A k \in DOMAIN before.bills :
        k \in DOMAIN after.bills /\ after.bills[k].id = before.bills[k].id

BillKeyStep ==
    /\ OneRowPerKey(db) /\ OneRowPerKey(db')
    /\ OneRowPerKey(tx) /\ OneRowPerKey(tx')
    /\ IdsKept(db, db')
    /\ (txState # "none" /\ txState' # "none") => IdsKept(tx, tx')

C8_BillKeyUniqueness == [][BillKeyStep]_vars

\* a committed report transaction linked a report to a bill that had a row
\* (same id as before) and to a bill it had to create as a stub
C8_Witness ==
    /\ family = "committee" /\ pc = "c_radvance" /\ outcome = "committed"
    /\ K1 \in DOMAIN dbAtBegin.bills
    /\ <<R1, dbAtBegin.bills[K1].id>> \in db.report_associated_bills
    /\ K4 \notin DOMAIN dbAtBegin.bills
    /\ K4 \in DOMAIN db.bills
    /\ <<R1, db.bills[K4].id>> \in db.report_associated_bills

(***************************************************************************)
(* C9 - Run idempotence as stated: when a script is run again right after  *)
(* a run that left in storage everything the upstream holds for it, with   *)
(* the upstream unchanged, the tables after the second run are those after *)
(* the first: the same rows with the same values.                          *)
(***************************************************************************)
TermStored(d, m, term) ==
    \E n \in 1..Len(d.member_terms) :
        d.member_terms[n] = [member |-> m, congress |-> term.congress,
                             chamber |-> term.chamber, district |-> term.district,
                             end_year |-> term.end_year]

MembersStored(d) ==
    \A p \in 1..Len(MemberPages) : \A m \in Range(MemberPages[p]) :
        /\ m \in DOMAIN d.members
        /\ d.members[m].first_name = MemberDetail(m).firstName
        /\ \A term \in Range(MemberDetail(m).terms) : TermStored(d, m, term)

ReportStored(d, code, citation) ==
    LET report == ReportItem(citation)
    IN  report.congress = CURRENT_CONGRESS =>
            /\ citation \in DOMAIN d.committee_reports
            /\ d.committee_reports[citation].title # Null
            /\ <<citation, code>> \in d.report_committees
            /\ \A k \in Range(report.associatedBill) :
                  /\ k \in DOMAIN d.bills
                  /\ <<citation, d.bills[k].id>> \in d.report_associated_bills

CommitteeStored(d, c) ==
    LET detail == CommitteeDetail(c.systemCode)
    IN  /\ c.systemCode \in DOMAIN d.committees
        /\ c.chamber # Null
        /\ d.committees[c.systemCode] =
              [name |-> c.name, chamber |-> c.chamber[1], parent |-> c.parent,
               is_current |-> detail.isCurrent]
        /\ \A h \in Range(detail.history) :
              h.officialName # Null =>
                \E n \in 1..Len(d.committee_history) :
                    d.committee_history[n] =
                        [code |-> c.systemCode, official_name |-> h.officialName]
        /\ (detail.reports # Null /\ detail.reports[1].count > 0) =>
              \A p \in 1..Len(ReportPages(c.systemCode)) :
                  \A citation \in Range(ReportPages(c.systemCode)[p]) :
                      ReportStored(d, c.systemCode, citation)

CommitteesStored(d, committeesData) ==
    /\ committeesData # <<>>
    /\ \A n \in 1..Len(committeesData) : CommitteeStored(d, committeesData[n])

C9_RunIdempotence ==
    (/\ runs = 2 /\ pc = "done"
     /\ \/ family = "member" /\ MembersStored(dbAfterFirst)
        \/ family = "committee" /\ CommitteesStored(dbAfterFirst, workList))
    => db = dbAfterFirst

(***************************************************************************)
(* C10 - Missing reference handling as stated: a bill batch is never       *)
(* rolled back because a sponsor or cosponsor absent from storage could    *)
(* not be fetched; only the fact naming that member is dropped.            *)
(***************************************************************************)
C10_MissingMemberTolerated ==
    ~(/\ family = "bill" /\ pc = "advance" /\ outcome = "rolledback"
      /\ error \in {"fk_bills_sponsor", "fk_bill_cosponsors", "fetch"})

(***************************************************************************)
(* C11 - Batch failure isolation.  In the bill and member scripts: the     *)
(* ROLLBACK of a failed batch leaves the committed tables as they were     *)
(* when the batch began (what earlier batches committed included), the     *)
(* loop then moves the cursor on by one batch over the same work list and  *)
(* fetches the next batch if there is one; and when the run ends, every    *)
(* batch of the work list has been fetched and handed to the writer,       *)
(* whichever batches were rolled back.                                     *)
(***************************************************************************)
BatchSizeOf(f) == IF f = "bill" THEN BATCH_SIZE ELSE MEMBER_BATCH_SIZE

Cursors(n, size) == {c \in 0..(n - 1) : c % size = 0}

FailureIsolationStep ==
    (family \in {"bill", "member"} /\ family' = family /\ runs' = runs) =>
        /\ (pc = "catch") =>
              (pc' = "advance" /\ outcome' = "rolledback" /\ db' = db /\ db' = dbAtBegin)
        /\ (pc = "advance" /\ outcome = "rolledback") =>
              (/\ db' = db
               /\ workList' = workList
               /\ i' = i + BatchSizeOf(family)
               /\ pc' = IF i' < Len(workList) THEN "fetch" ELSE "done")

EveryBatchAttempted ==
    (family \in {"bill", "member"} /\ pc = "done" /\ workList # <<>>) =>
        hist.attempted = Cursors(Len(workList), BatchSizeOf(family))

CommittedWithinWindow(k) ==
    k \in DOMAIN hist.committedAt /\ now - hist.committedAt[k] < FRESH_DAYS

CommittedBatchesWhole ==
    /\ db = hist.lastCommit
    /\ \A k \in DOMAIN hist.committedAt :
          k \in DOMAIN db.bills /\ db.bills[k].wm = Some(hist.committedAt[k])

AfterKill == family = "bill" /\ hist.killedAt # ""

C12_CrashRestart ==
    AfterKill =>
        /\ CommittedBatchesWhole
        /\ (pc = "plan" \/ PlannedNotWritten) =>
              \A k \in Range(listed) :
                  (k \notin Range(workList)) <=> CommittedWithinWindow(k)

\* the run was killed while the transaction of its second batch was open;
\* the run of the next day plans the bill of that batch and leaves out the
\* two bills the first batch committed
C12_Witness ==
    /\ hist.killedAt = "in transaction" /\ PlannedNotWritten
    /\ now = Day0 + 1
    /\ listed = <<K1, K2, K3>>
    /\ workList = <<K3>>
    /\ K3 \notin DOMAIN db.bills
    /\ hist.committedAt[K1] = Day0 /\ hist.committedAt[K2] = Day0

\* C12 as stated: the same for every bill listed upstream, whatever pages
\* the next run received
C12_EveryListedBillResumed ==
    (AfterKill /\ PlannedNotWritten) =>
        \A k \in AllListedBills :
            (k \notin Range(workList)) <=> CommittedWithinWindow(k)

(***************************************************************************)
(* C13 - Partial sub-resource fetch self-heals, as stated: a bill that was *)
(* written and committed with a sub-resource listing that ended early is   *)
(* in the work list of the next run whenever that run receives the listing *)
(* page the bill is on.                                                    *)
(***************************************************************************)
C13_PartialFetchSelfHeals ==
    (family = "bill" /\ runs >= 2 /\ PlannedNotWritten) =>
        \A k \in Range(listed) :
            (k \in hist.partial /\ k \in DOMAIN hist.committedAt) =>
                k \in Range(workList)

(***************************************************************************)
(* C14 - Throttled requests are never dropped silently, as stated: after a *)
(* step in which a request was answered 429 the script is retrying the     *)
(* unit (the cooldown before the same batch), or in the catch block of the *)
(* batch (a terminal failure), or it has ended the list walk the request   *)
(* belonged to; it is never on its way to the next item of the batch or to *)
(* COMMIT as if the request had not been made.  (A 429 on a sub-resource   *)
(* page is retried inside the step and does not show.)                     *)
(***************************************************************************)
C14_ThrottledNeverDropped ==
    hist.fetch = "throttled" =>
        \/ pc = "cooldown"
        \/ pc \in {"catch", "c_dcatch", "c_rcatch"}
        \/ pc \in {"fetch", "done", "c_base"}

(***************************************************************************)
(* C15 - Single-record failures are absorbed, as stated: the failed detail *)
(* fetch of one record never fails its batch.  In the bill and member      *)
(* scripts a failed detail fetch resolves to null before the batch is      *)
(* written, so the only place a detail fetch can fail a batch is the       *)
(* details transaction of the committee script: it never reaches its catch *)
(* block because of a detail request that met a transport error.           *)
(***************************************************************************)
C15_DetailFailureAbsorbed ==
    ~(/\ family = "committee" /\ pc = "c_dcatch"
      /\ error = "fetch" /\ hist.fetch = "throw")

(***************************************************************************)
(* C16 - Page walking with partial result.  In each list walker: a page    *)
(* request that succeeds appends the page's items to the list (the bill    *)
(* walker: those the filter keeps) and, when the page names a next page,   *)
(* the walker goes on to it; a page request that fails (transport error or *)
(* non-success status) leaves the list as it is, ends the walk with no     *)
(* further request and no exception, and main goes on with the list.  So   *)
(* while a walk is at page k its list holds the items of pages 1..k-1.     *)
(***************************************************************************)
RECURSIVE Flatten(_)
Flatten(pages) == IF pages = <<>> THEN <<>> ELSE Head(pages) \o Flatten(Tail(pages))

IsPrefix(xs, ys) == Len(xs) <= Len(ys) /\ SubSeq(ys, 1, Len(xs)) = xs

PageWalkStep ==
    (pc \in {"plan", "c_list"} /\ runs' = runs) =>
        IF hist'.fetch = "ok"
        THEN /\ (family = "member") =>
                   (/\ workList' = workList \o MemberPages[page]
                    /\ (page < Len(MemberPages)) => (pc' = "plan" /\ page' = page + 1))
             /\ (family = "bill") =>
                   (/\ listed' = listed \o BillPages[page]
                    /\ IsPrefix(workList, workList')
                    /\ Range(workList') \ Range(workList) \subseteq Range(BillPages[page])
                    /\ (page < Len(BillPages)) => (pc' = "plan" /\ page' = page + 1))
             /\ (family = "committee") =>
                   (/\ IsPrefix(workList, workList')
                    /\ Len(workList') = Len(workList) + 1
                    /\ (pc' = "c_list") => (page' = page + 1))
        ELSE /\ hist'.fetch \in Failures
             /\ workList' = workList
             /\ listed' = listed
             /\ page' = 0
             /\ pc' \in {"fetch", "c_base", "done"}
             /\ error' = "ok"
             /\ db' = db

WalkedPrefix ==
    /\ (family = "member" /\ pc = "plan") =>
          workList = Flatten(SubSeq(MemberPages, 1, page - 1))
    /\ (family = "bill" /\ pc = "plan") =>
          listed = Flatten(SubSeq(BillPages, 1, page - 1))
    /\ (family = "committee" /\ pc = "c_list") => Len(workList) = page - 1

C16_PageWalkPartialResult == [][PageWalkStep]_vars /\ []WalkedPrefix

\* the request for page 2 of the member listing failed: the walk ended and
\* main is about to fetch the first batch of the members of page 1
C16_Witness ==
    /\ family = "member" /\ pc = "fetch" /\ i = 0
    /\ hist.fetch \in Failures
    /\ workList = MemberPages[1]
    /\ Len(MemberPages) > 1

(***************************************************************************)
(* C17 - Report freshness decision.  In a turn of the details loop whose   *)
(* payload carries a committee with a reports URL and whose statements all *)
(* succeed, the committee's reports URL is queued exactly when fewer of    *)
(* its stored reports of the target congress have a linked bill than it    *)
(* has stored reports of that congress, or the payload's reports count is  *)
(* above zero; in every other such turn the queue is left as it is.        *)
(***************************************************************************)
StoredReports(d, code) ==
    {c \in DOMAIN d.committee_reports :
        d.committee_reports[c].congress = CURRENT_CONGRESS
        /\ <<c, code>> \in d.report_committees}

LinkedReports(d, code) ==
    {c \in StoredReports(d, code) :
        \E k \in DOMAIN d.bills : <<c, d.bills[k].id>> \in d.report_associated_bills}

FreshnessStep ==
    (/\ family = "committee" /\ pc = "c_dtx" /\ j <= Len(batch)
     /\ hist'.fetch = "ok" /\ pc' = "c_dtx"
     /\ CommitteeDetail(batch[j]).reports # Null) =>
        IF \/ Cardinality(LinkedReports(tx', batch[j])) < Cardinality(StoredReports(tx', batch[j]))
           \/ CommitteeDetail(batch[j]).reports[1].count > 0
        THEN allReportUrls' = Append(allReportUrls, batch[j])
        ELSE allReportUrls' = allReportUrls

ConfigurationStep ==
    (~hist'.configured) =>
        /\ pc' = "done"
        /\ hist'.fetch = "none"
        /\ db' = db /\ tx' = tx /\ billSeq' = billSeq
        /\ txState' = "none"
        /\ held' = 0
        /\ workList' = <<>>

C18_ConfigurationFailure == [][ConfigurationStep]_vars

\* the bill script was started with the target congress unset and has ended
C18_Witness ==
    /\ family = "bill" /\ ~hist.configured
    /\ pc = "done" /\ runs = 1
    /\ hist.fetch = "none" /\ db = hist.lastCommit

(***************************************************************************)
(* C19 - No transaction spans a suspension point.  As claimed: no step     *)
(* that awaits a network request leaves a batch transaction open, that is, *)
(* between BEGIN and COMMIT/ROLLBACK no request is awaited.  The bill      *)
(* writer and both committee writers fetch inside their transaction.       *)
(***************************************************************************)
C19_NoRequestInsideTransaction == ~(txState # "none" /\ hist.fetch # "none")

(***************************************************************************)
(* C20 - Connection release.  At most one client is checked out at any     *)
(* time, none is released twice, and whenever the script stands outside a  *)
(* unit of work (a list walk has returned, a writer has returned after     *)
(* commit, rollback or an early end of its loop, the run has ended) no     *)
(* client is checked out.                                                  *)
(***************************************************************************)
\* the script is inside fetchAndFilterBillUrls or inside a writer
InUnitOfWork ==
    \/ family = "bill" /\ pc = "plan"
    \/ txState # "none"

C20_ConnectionRelease ==
    /\ held \in {0, 1}
    /\ (~InUnitOfWork) => held = 0
    /\ (pc \in {"idle", "done", "fetch", "save", "advance", "c_list", "c_base",
                "c_details", "c_dadvance", "c_reports", "c_radvance"}) => held = 0

\* the bill writer has returned after a rollback; its client is back in the pool
C20_Witness ==
    /\ family = "bill" /\ pc = "advance" /\ outcome = "rolledback"
    /\ i \in hist.rolled
    /\ held = 0 /\ txState = "none"

(***************************************************************************)
(* C21 - Upsert overwrites only supplied fields.  As claimed: a row that   *)
(* was stored when the batch transaction of the bill or member script      *)
(* began keeps, in the committed tables, every non-null field the payload  *)
(* omitted: a committee name that was not the placeholder is not the       *)
(* placeholder, a bill title that was not 'Untitled Bill' is not           *)
(* 'Untitled Bill', a bill sponsor or member first name that was set is    *)
(* not null.                                                               *)
(***************************************************************************)
PlaceholderName == <<"unknown", "committee">>

C21_UpsertKeepsOmittedFields ==
    (family \in {"bill", "member"}) =>
        /\ \A c \in DOMAIN dbAtBegin.committees \cap DOMAIN db.committees :
              dbAtBegin.committees[c].name # PlaceholderName
                  => db.committees[c].name # PlaceholderName
        /\ \A k \in DOMAIN dbAtBegin.bills \cap DOMAIN db.bills :
              /\ dbAtBegin.bills[k].title # Some("Untitled Bill")
                    => db.bills[k].title # Some("Untitled Bill")
              /\ dbAtBegin.bills[k].sponsor # Null => db.bills[k].sponsor # Null
        /\ \A m \in DOMAIN dbAtBegin.members \cap DOMAIN db.members :
              dbAtBegin.members[m].first_name # Null => db.members[m].first_name # Null

(***************************************************************************)
(* C22 - Chamber merge in pass 1.  As claimed: after upsertBaseCommittees  *)
(* a committee that was stored with a chamber other than 'Unknown' still   *)
(* has that chamber, the incoming chamber being 'Unknown', missing or the  *)
(* stored one.                                                             *)
(***************************************************************************)
C22_ChamberMergeInPass1 ==
    (family = "committee" /\ pc = "c_details" /\ i = 0) =>
        \A c \in DOMAIN dbAtBegin.committees \cap DOMAIN db.committees :
            dbAtBegin.committees[c].chamber # "Unknown"
                => db.committees[c].chamber = dbAtBegin.committees[c].chamber

(***************************************************************************)
(* C23 - Force flag for reports.  As claimed: with FORCE_UPDATE_REPORTS    *)
(* true, after a turn of the details loop whose payload carries a          *)
(* committee with a reports URL and whose statements succeeded, that       *)
(* committee is in the queue of reports URLs, whatever the counts are.     *)
(***************************************************************************)
C23_ForceFlagQueuesAll ==
    (/\ FORCE_UPDATE_REPORTS
     /\ family = "committee" /\ pc = "c_dtx" /\ hist.fetch = "ok"
     /\ j > 1 /\ j - 1 <= Len(batch)
     /\ CommitteeDetail(batch[j - 1]).reports # Null) =>
        batch[j - 1] \in Range(allReportUrls)

(***************************************************************************)
(* C24 - inferChamber is total.  As claimed: for every committee item of a *)
(* bill being written inferChamber returns the item's own chamber or one   *)
(* of 'Senate', 'House', 'Joint', 'Unknown', so ensureCommitteeExists      *)
(* leaves a row for the item and no bill_committees insert fails on its    *)
(* foreign key for an item whose chamber had to be inferred.               *)
(***************************************************************************)
InferredChambers == {"Senate", "House", "Joint", "Unknown"}

C24_InferChamberTotal ==
    ~(/\ family = "bill" /\ pc = "catch" /\ error = "fk_bill_committees"
      /\ \E n \in 1..Len(batch) : \E c \in Range(batch[n].committees) :
            /\ c.chamber = Null
            /\ inferChamber(c) \notin InferredChambers)

(***************************************************************************)
(* C25 - Page-level throttling in fetchPaginatedSubEndpoint.  A request    *)
(* answered 429 is followed by a request for the same page: the cursor and *)
(* the items gathered do not change.  A successful request appends the     *)
(* page's items and moves the cursor by one page.  Any other answer ends   *)
(* the walk with the items as they are.  So at every point the items are   *)
(* the concatenation, in page order, of the pages before the cursor, and   *)
(* the walk ends only past the last page or at the first failure that is   *)
(* not a 429.                                                              *)
(***************************************************************************)
SubStep ==
    (pc = "sub") =>
        /\ (hist'.fetch = "throttled") =>
              (page' = page /\ results' = results /\ pc' = "sub")
        /\ (hist'.fetch = "ok") =>
              (results' = results \o workList[page] /\ page' = page + 1)
        /\ (hist'.fetch \in {"status", "throw"}) =>
              (results' = results /\ pc' = "sub_done")

SubPrefix ==
    (family = "sub") =>
        /\ results = Flatten(SubSeq(workList, 1, page - 1))
        /\ (pc = "sub_done") =>
              (page = Len(workList) + 1 \/ hist.fetch \in {"status", "throw"})

C25_PageLevelThrottling == [][SubStep]_vars /\ []SubPrefix

\* a listing of several pages was read to its end with a 429 on the way:
\* every item is there once
C25_Witness ==
    /\ family = "sub" /\ pc = "sub_done"
    /\ throttles > 0
    /\ Len(workList) = MaxSubPages
    /\ page = Len(workList) + 1
    /\ results = <<"a", "b", "c", "a">>

(***************************************************************************)
(* C26 - Serialized batches.  In the bill and member scripts: at most one  *)
(* client, hence one batch transaction, is open at any time; a fan-out     *)
(* issues one request per URL of one batch, at most BATCH_SIZE of them;    *)
(* it is issued only while no transaction is open, after every earlier     *)
(* batch of the work list went through the writer; and while a transaction *)
(* is open the script is inside the writer, not at a fan-out.              *)
(***************************************************************************)
FanOutStep ==
    (family \in {"bill", "member"} /\ pc = "fetch" /\ runs' = runs) =>
        /\ txState = "none" /\ held = 0
        /\ Len(results') <= BatchSizeOf(family)
        /\ Len(results') = Len(workList) - i \/ Len(results') = BatchSizeOf(family)
        /\ \A c \in Cursors(Len(workList), BatchSizeOf(family)) :
              c < i => c \in hist.attempted

OneTransactionAtATime ==
    (family \in {"bill", "member"}) =>
        /\ held \in {0, 1}
        /\ (txState # "none") =>
              (/\ held = 1
               /\ i \in hist.attempted
               /\ pc \notin {"plan", "fetch", "cooldown", "save", "advance", "done"})
        /\ Len(results) <= BatchSizeOf(family)

C26_SerializedBatches == [][FanOutStep]_vars /\ []OneTransactionAtATime

\* the details of the second batch of a bill run have been requested, after
\* the transaction of the first batch ended
C26_Witness ==
    /\ family = "bill" /\ pc = "save"
    /\ i = BATCH_SIZE /\ 0 \in hist.attempted
    /\ results # <<>>
    /\ txState = "none" /\ held = 0

(***************************************************************************)
(* C27 - Run termination.  With a finite listing and finitely many 429     *)
(* answers, a bill or member run that has started reaches its end; at the  *)
(* end of a run with a work list every batch cursor of the list was handed *)
(* to the writer; and a run whose work list is empty ends with no fan-out, *)
(* no batch handed to the writer and the committed tables untouched.       *)
(***************************************************************************)
Running == family \in {"bill", "member"} /\ pc \notin {"idle", "done"}

EmptyListQuiet ==
    (family \in {"bill", "member"} /\ pc = "done" /\ workList = <<>>) =>
        (hist.attempted = {} /\ results = <<>> /\ db = dbAtBegin /\ tx = EmptyDb)

C28_MalformedPayloadLeftOut ==
    ~(/\ family = "bill" /\ pc = "advance"
      /\ outcome = "rolledback" /\ error = "TypeError"
      /\ \E n \in 1..Len(results) : results[n].kind = "undefined"
      /\ \E n \in 1..Len(results) : results[n].kind = "bill"
      /\ \E n \in 1..Len(batch) : batch[n].kind = "undefined")

(***************************************************************************)
(* C29 - Stub writes do not touch existing bills.  As claimed: a bill row  *)
(* that existed when a batch transaction began and that is not one of the  *)
(* batch's own bills is, after the commit, exactly as it was: the stubs    *)
(* written for related bills and for bills associated with reports change  *)
(* no field of it.                                                         *)
(***************************************************************************)
C29_StubsLeaveExistingBills ==
    /\ (family = "bill" /\ pc = "advance" /\ outcome = "committed") =>
          \A k \in (DOMAIN dbAtBegin.bills \cap DOMAIN db.bills) \ TopLevelKeys(batch) :
              db.bills[k] = dbAtBegin.bills[k]
    /\ (family = "committee" /\ pc = "c_radvance" /\ outcome = "committed") =>
          \A k \in DOMAIN dbAtBegin.bills \cap DOMAIN db.bills :
              db.bills[k] = dbAtBegin.bills[k]

(***************************************************************************)
(* C30 - Parent pointer mirrors the input.  As claimed: after              *)
(* upsertBaseCommittees committed, every committee that the input lists    *)
(* once has as stored parent the parent the input declares for it, and no  *)
(* parent when the input declares none, whatever was stored before.        *)
(***************************************************************************)
ListedOnce(n) ==
    \A m \in 1..Len(workList) : workList[m].systemCode = workList[n].systemCode => m = n

C30_ParentMirrorsInput ==
    (family = "committee" /\ pc = "c_details" /\ i = 0 /\ outcome = "committed") =>
        \A n \in 1..Len(workList) :
            ListedOnce(n) =>
                db.committees[workList[n].systemCode].parent = workList[n].parent


=============================================================================
